---- MODULE Spec2Model ----
(***************************************************************************)
(* The metadata-driven list and editor of tibba's web client.              *)
(*                                                                         *)
(* List:   DataTable   (src/unnamed/part_013)                              *)
(* Editor: EntityForm  (src/web/src/components/entity-form.tsx), mounted   *)
(*         by EntityEditor (src/web/src/pages/EntityEditor.tsx)            *)
(* Store:  useEntityStore (src/web/src/state/entity.ts)                    *)
(*                                                                         *)
(* Both are React function components.  One step of the model is one task  *)
(* of the UI event loop: a user event or the arrival of a response, the    *)
(* state updates its handler makes, and the re-renders and effects that    *)
(* follow from them until no dependency of any effect has changed.  A      *)
(* request that is awaited stays in a collection of requests in flight     *)
(* until its response is delivered by a later step, in any order.          *)
(***************************************************************************)
EXTENDS Integers, Sequences, FiniteSets, TLC

\* ------------------------------------------------------------------ bounds

\* description requests that may be in flight at once in one list
MaxDescInFlight == 2
\* clicks on a sortable header in one run
MaxSortClicks == 3

\* --------------------------------------------------------------- constants

\* useState<PaginationState>({ pageIndex: -1, ... }): "not yet paged"
Sentinel == -1
\* getPageSize(): the page size when none is stored
DefaultPageSize == 10

\* ------------------------------------------------------- the record service

\* the entity types the list shows
Entities == {"users", "settings"}

\* the entity types the editor is opened on: "tags" has a file, a readonly
\* status and its id
EditorEntities == {"users", "settings", "tags"}

\* const opName = "op"
opName == "op"

Item(name, label, category, readonly, auto_created) ==
    [name |-> name, label |-> label, category |-> category,
     readonly |-> readonly, auto_created |-> auto_created]

\* GET description(E): what the service answers for each entity type
ServerDescription(e) ==
    IF e = "users"
    THEN [items |-> << Item("id", "", "number", TRUE, TRUE),
                       Item("name", "Name", "text", FALSE, FALSE),
                       Item("remark", "Remark", "text", FALSE, FALSE) >>,
          support_orders |-> {"name"},
          modify_roles |-> {"su"}]
    ELSE IF e = "settings"
    THEN [items |-> << Item("id", "", "number", TRUE, TRUE),
                       Item("name", "Name", "text", FALSE, FALSE),
                       Item("status", "Status", "status", FALSE, FALSE),
                       Item("created_at", "Created", "datetime", TRUE, TRUE) >>,
          support_orders |-> {"name", "status"},
          modify_roles |-> {"su", "admin"}]
    ELSE [items |-> << Item("id", "", "number", TRUE, TRUE),
                       Item("file", "File", "file", FALSE, FALSE),
                       Item("status", "Status", "status", TRUE, FALSE) >>,
          support_orders |-> {},
          modify_roles |-> {"su"}]

\* page_count of a list response: negative when the service did not count
PageCountAnswers == {-1, 0, 1, 2}

\* the sortable column whose header is clicked
SortClickColumns == {"name"}

\* the sortable columns of "settings", for the clicks on two headers
SortColumns == {"name", "status"}

\* the sort lists handed to the orders builder: up to two entries, each of
\* another column, in either direction
SortLists ==
    {<<>>}
    \cup { << [id |-> c, desc |-> d] >> : c \in SortColumns, d \in BOOLEAN }
    \cup { s \in { << [id |-> c1, desc |-> d1], [id |-> c2, desc |-> d2] >> :
                       c1 \in SortColumns, c2 \in SortColumns,
                       d1 \in BOOLEAN, d2 \in BOOLEAN } : s[1].id # s[2].id }

\* the role sets the signed-in actor may have (useUserStore: roles)
RoleSets == { {}, {"user"}, {"admin"}, {"su", "admin"} }

\* the column whose visibility is toggled in the "columns" menu
VisibilityColumns == {"name"}

\* keywords typed in the search box
Keywords == {"", "k"}

\* values typed in the page-size input
PageSizeInputs == {0, 20}

\* ------------------------------------------------------------ localStorage

\* window.localStorage.getItem of a key that was never set
NullItem == "<null>"

\* `${pageSize}`
NumToString(n) ==
    CASE n = 10 -> "10"
      [] n = 20 -> "20"
      [] n = 0 -> "0"
      [] OTHER -> "NaN"

\* Number(value): Number(null) is 0, Number of a non-numeric string is NaN
IsNaN(str) == str \notin {NullItem, "", "0", "10", "20", "-5"}

NumberOf(str) ==
    CASE str = "10" -> 10
      [] str = "20" -> 20
      [] str = "-5" -> -5
      [] OTHER -> 0

\* mutant: the stored page size taken as the number it parses to
getPageSizeUnchecked(stored) == NumberOf(stored)

getPageSize(stored) ==
    IF IsNaN(stored) \/ NumberOf(stored) <= 0
    THEN DefaultPageSize
    ELSE NumberOf(stored)

savePageSize(pageSize) == NumToString(pageSize)

\* a VisibilityState: column id -> visible
EmptyVisibility == [c \in {} |-> TRUE]

\* localStorage holds <<>> for a missing key, <<m>> for JSON.stringify(m)
getColumnVisibility(store, entity) ==
    IF store[entity] = <<>> THEN EmptyVisibility ELSE store[entity][1]

saveColumnVisibility(store, entity, data) ==
    [store EXCEPT ![entity] = << data >>]

\* ---------------------------------------------------------------- the URL

\* the page parameters a URL is opened or navigated with: none, a page, a
\* negative number, a text
UrlPageParams == {NullItem, "1", "-1", "abc"}

\* `${pageIndex}` of params.set("page", `${pageIndex}`)
PageToString(n) ==
    CASE n = 0 -> "0"
      [] n = 1 -> "1"
      [] n = 2 -> "2"
      [] n = -1 -> "-1"
      [] OTHER -> "NaN"

\* Number(searchParams.get("page")) || 0: Number(null) is 0 and NaN || 0 is 0
PageParam(str) ==
    CASE str = "1" -> 1
      [] str = "2" -> 2
      [] str = "-1" -> -1
      [] OTHER -> 0

\* ------------------------------------------------------------ pure helpers

RECURSIVE JoinComma(_)
JoinComma(strs) ==
    IF strs = <<>> THEN ""
    ELSE IF Len(strs) = 1 THEN strs[1]
    ELSE strs[1] \o "," \o JoinComma(Tail(strs))

\* mutant: the orders string without the '-' of a descending entry
BuildOrdersUnsigned(sorting) ==
    JoinComma([i \in 1..Len(sorting) |-> sorting[i].id])

\* sorting.map(item => item.desc ? `-${item.id}` : item.id).join(",")
BuildOrders(sorting) ==
    JoinComma([i \in 1..Len(sorting) |->
                  IF sorting[i].desc THEN "-" \o sorting[i].id ELSE sorting[i].id])

\* column.getIsSorted(): false | "asc" | "desc"
getIsSorted(sorting, col) ==
    IF \E i \in 1..Len(sorting) : sorting[i].id = col
    THEN LET i == CHOOSE i \in 1..Len(sorting) : sorting[i].id = col
         IN IF sorting[i].desc THEN "desc" ELSE "asc"
    ELSE "false"

\* mutant: toggleSorting as with the multi flag set, where a column that is
\* not sorted yet is added after the entries there are
toggleSortingMulti(sorting, col, desc) ==
    IF \E i \in 1..Len(sorting) : sorting[i].id = col
    THEN [i \in 1..Len(sorting) |->
             IF sorting[i].id = col THEN [id |-> col, desc |-> desc] ELSE sorting[i]]
    ELSE Append(sorting, [id |-> col, desc |-> desc])

\* column.toggleSorting(desc) of @tanstack/react-table with an explicit desc
\* and no multi flag: the column's entry is toggled to desc when it is the
\* last entry, and otherwise the whole sorting is replaced by the one entry.
toggleSorting(sorting, col, desc) ==
    IF sorting # <<>> /\ sorting[Len(sorting)].id = col
    THEN [i \in 1..Len(sorting) |->
             IF sorting[i].id = col THEN [id |-> col, desc |-> desc] ELSE sorting[i]]
    ELSE << [id |-> col, desc |-> desc] >>

\* mutant: the comparison of the click handler negated
headerClickNegated(sorting, col) ==
    toggleSorting(sorting, col, getIsSorted(sorting, col) # "asc")

\* onClick={() => column.toggleSorting(column.getIsSorted() === "asc")}
headerClick(sorting, col) ==
    toggleSorting(sorting, col, getIsSorted(sorting, col) = "asc")

\* mutant: canModify asking for every modify role instead of some
canModifyEvery(description, roles) ==
    \A r \in description.modify_roles : r \in roles

\* let canModify = false; description.modify_roles.forEach(...)
canModify(description, roles) ==
    \E r \in description.modify_roles : r \in roles

arrowType(sorting, name) ==
    CASE getIsSorted(sorting, name) = "desc" -> 1
      [] getIsSorted(sorting, name) = "asc" -> 2
      [] OTHER -> 0

\* one ColumnDef per item of the description, in the items' order
convertDescriptionToColumnDef(description, sorting, roles, entity) ==
    [i \in 1..Len(description.items) |->
        LET item == description.items[i]
        IN [accessorKey |-> item.name,
            category |-> item.category,
            sortable |-> item.category # opName
                         /\ item.name \in description.support_orders,
            arrow |-> arrowType(sorting, item.name),
            action |-> IF item.category # opName THEN "none"
                       ELSE IF canModify(description, roles) THEN "edit"
                       ELSE "view",
            entity |-> entity]]

\* mutant: the op item put in front of the server items (unshift)
pushOpFirst(description) ==
    [description EXCEPT !.items = << Item(opName, "op-label", opName, TRUE, FALSE) >> \o @]

\* description.items.push({ name: opName, label: "操作", category: opName, ... })
pushOp(description) ==
    [description EXCEPT !.items = Append(@, Item(opName, "op-label", opName, TRUE, FALSE))]

\* columnLabels: item.name -> item.label for the items that have a label
columnLabels(description) ==
    { << description.items[i].name, description.items[i].label >> :
        i \in { j \in 1..Len(description.items) : description.items[j].label # "" } }

RemoveAt(seq, i) ==
    [j \in 1..(Len(seq) - 1) |-> IF j < i THEN seq[j] ELSE seq[j + 1]]

Min(a, b) == IF a < b THEN a ELSE b
Max(a, b) == IF a > b THEN a ELSE b

\* ------------------------------------------------------------------- state

VARIABLES
    \* DataTable: props and the actor
    entity, roles,
    \* DataTable: useState
    initialized, entityItems, labels, pageCount, entities,
    pageIndex, pageSize, columnVisibility, sorting, loading,
    keyword, inputKeyword,
    \* window.localStorage
    storeVisibility, storePageSize,
    \* requests in flight: fetchDescription and listEntities
    descReqs, pageReqs,
    \* which DataTable is built: the one that keeps the page in the URL
    \* (useSearchParams, useLocation) or the one that does not
    urlSync,
    \* the page parameter of the URL: searchParams.get("page")
    urlPage,
    \* history: the clicks made on sortable headers
    sortClicks,
    \* history, kept by the runs that record it: the rows and page count of
    \* the last page load that succeeded, and whether a fetch failed since
    fetchLog

listVars == << entity, roles, initialized, entityItems, labels, pageCount,
               entities, pageIndex, pageSize, columnVisibility, sorting,
               loading, keyword, inputKeyword, storeVisibility, storePageSize,
               descReqs, pageReqs, urlSync, urlPage, sortClicks, fetchLog >>

VARIABLES
    \* EntityEditor: route parameters and useState
    edEntity, edId, edInitialized, edDescription,
    \* EntityForm: "unmounted", "mounted", or "crashed" when a render threw
    formState,
    \* EntityForm: the values bound in the form (react-hook-form) and useState
    formValues, entityData, processing, tips,
    \* requests in flight: fetchDescription, getEntity, createEntity/updateEntity
    edDescReqs, getReqs, submitReqs,
    \* history: the last event of the editor and the toast it raised
    edLast, toastRaised

editorVars == << edEntity, edId, edInitialized, edDescription, formState,
                 formValues, entityData, processing, tips, edDescReqs,
                 getReqs, submitReqs, edLast, toastRaised >>

vars == << listVars, editorVars >>

\* the history of the fetches: not kept, or kept and empty
LogOff == [on |-> FALSE, failed |-> FALSE, loaded |-> <<>>]
LogOn == [on |-> TRUE, failed |-> FALSE, loaded |-> <<>>]

\* a page load succeeded with these rows and left this page count
LogLoad(log, rows, count) ==
    IF log.on
    THEN [log EXCEPT !.failed = FALSE,
                     !.loaded = << [rows |-> rows, pageCount |-> count] >>]
    ELSE log

\* a description fetch or a page fetch failed
LogFailure(log) == IF log.on THEN [log EXCEPT !.failed = TRUE] ELSE log

\* the list's state as one record, for the operators that compute a step
ListState ==
    [entity |-> entity, roles |-> roles, initialized |-> initialized,
     entityItems |-> entityItems, labels |-> labels, pageCount |-> pageCount,
     entities |-> entities, pageIndex |-> pageIndex, pageSize |-> pageSize,
     columnVisibility |-> columnVisibility, sorting |-> sorting,
     loading |-> loading, keyword |-> keyword, inputKeyword |-> inputKeyword,
     storeVisibility |-> storeVisibility, storePageSize |-> storePageSize,
     descReqs |-> descReqs, pageReqs |-> pageReqs,
     urlSync |-> urlSync, urlPage |-> urlPage, fetchLog |-> fetchLog]

ListIs(s) ==
    /\ entity = s.entity
    /\ roles = s.roles
    /\ initialized = s.initialized
    /\ entityItems = s.entityItems
    /\ labels = s.labels
    /\ pageCount = s.pageCount
    /\ entities = s.entities
    /\ pageIndex = s.pageIndex
    /\ pageSize = s.pageSize
    /\ columnVisibility = s.columnVisibility
    /\ sorting = s.sorting
    /\ loading = s.loading
    /\ keyword = s.keyword
    /\ inputKeyword = s.inputKeyword
    /\ storeVisibility = s.storeVisibility
    /\ storePageSize = s.storePageSize
    /\ descReqs = s.descReqs
    /\ pageReqs = s.pageReqs
    /\ urlSync = s.urlSync
    /\ urlPage = s.urlPage
    /\ fetchLog = s.fetchLog

ListBecomes(s) ==
    /\ entity' = s.entity
    /\ roles' = s.roles
    /\ initialized' = s.initialized
    /\ entityItems' = s.entityItems
    /\ labels' = s.labels
    /\ pageCount' = s.pageCount
    /\ entities' = s.entities
    /\ pageIndex' = s.pageIndex
    /\ pageSize' = s.pageSize
    /\ columnVisibility' = s.columnVisibility
    /\ sorting' = s.sorting
    /\ loading' = s.loading
    /\ keyword' = s.keyword
    /\ inputKeyword' = s.inputKeyword
    /\ storeVisibility' = s.storeVisibility
    /\ storePageSize' = s.storePageSize
    /\ descReqs' = s.descReqs
    /\ pageReqs' = s.pageReqs
    /\ urlSync' = s.urlSync
    /\ urlPage' = s.urlPage
    /\ fetchLog' = s.fetchLog

\* ----------------------------------------------------------------- effects
\* An effect runs after a render in which one of its dependencies changed.
\* c is the rendered state its closure reads; a is the state the updates,
\* store writes and requests of this commit's effects accumulate in.

NoRows == <<>>
NoLabels == {}

\* mutant: reset without setKeyword("")
resetKeepsKeyword(c, a) ==
    [a EXCEPT !.initialized = FALSE,
              !.labels = NoLabels,
              !.entityItems = <<>>,
              !.pageCount = 0,
              !.entities = NoRows,
              !.pageSize = getPageSize(a.storePageSize),
              !.pageIndex = Sentinel,
              !.columnVisibility = getColumnVisibility(a.storeVisibility, c.entity)]

\* mutant: the reset leaving the in-memory visibility map as it is
resetKeepsVisibility(c, a) ==
    [a EXCEPT !.keyword = "",
              !.initialized = FALSE,
              !.labels = NoLabels,
              !.entityItems = <<>>,
              !.pageCount = 0,
              !.entities = NoRows,
              !.pageSize = getPageSize(a.storePageSize),
              !.pageIndex = Sentinel]

\* function reset()
reset(c, a) ==
    [a EXCEPT !.keyword = "",
              !.initialized = FALSE,
              !.labels = NoLabels,
              !.entityItems = <<>>,
              !.pageCount = 0,
              !.entities = NoRows,
              !.pageSize = getPageSize(a.storePageSize),
              !.pageIndex = Sentinel,
              !.columnVisibility = getColumnVisibility(a.storeVisibility, c.entity)]

\* useAsync(async () => { reset(); ... await fetchDescription(entity) ...},
\*          [entity, sorting]) up to the await
DescriptionEffect(c, a) ==
    [reset(c, a) EXCEPT !.descReqs =
        Append(@, [entity |-> c.entity, sorting |-> c.sorting,
                   roles |-> c.roles, pageSize |-> c.pageSize,
                   stale |-> FALSE])]

\* mutant: the page fetch without its in-flight guard
PageFetchNeverBlocked(c) == FALSE

\* the guard of the page fetch: if (loading) return
PageFetchBlocked(c) == c.loading

\* mutant: every page request asks for the count
PageEffectAlwaysCounted(c, a) ==
    IF c.pageIndex < 0 THEN a
    ELSE IF PageFetchBlocked(c) THEN a
    ELSE [a EXCEPT !.loading = TRUE,
                   !.pageReqs = Append(@, [entity |-> c.entity,
                                           page_size |-> c.pageSize,
                                           page |-> c.pageIndex,
                                           keyword |-> c.keyword,
                                           orders |-> BuildOrders(c.sorting),
                                           counted |-> TRUE])]

\* useAsync(async () => { ... await listEntities(...) ... },
\*          [pageIndex, keyword, pageSize]) up to the await
PageEffect(c, a) ==
    IF c.pageIndex < 0 THEN a
    ELSE IF PageFetchBlocked(c) THEN a
    ELSE [a EXCEPT !.loading = TRUE,
                   !.pageReqs = Append(@, [entity |-> c.entity,
                                           page_size |-> c.pageSize,
                                           page |-> c.pageIndex,
                                           keyword |-> c.keyword,
                                           orders |-> BuildOrders(c.sorting),
                                           counted |-> (c.pageCount = 0)])]

\* mutant: the save effect writing the page size only
SaveEffectPageSizeOnly(c, a) ==
    [a EXCEPT !.storePageSize = savePageSize(c.pageSize)]

\* useEffect(() => { saveColumnVisibility(...); savePageSize(pageSize) },
\*           [entity, columnVisibility, pageSize])
SaveEffect(c, a) ==
    [a EXCEPT !.storeVisibility =
                  saveColumnVisibility(@, c.entity, c.columnVisibility),
              !.storePageSize = savePageSize(c.pageSize)]

NoChange ==
    [entity |-> FALSE, sorting |-> FALSE, pageIndex |-> FALSE,
     keyword |-> FALSE, pageSize |-> FALSE, visibility |-> FALSE,
     location |-> FALSE]

\* one commit: the effects whose dependencies changed, in declaration order
Commit(c, ch) ==
    LET runDesc == ch.entity \/ ch.sorting
        runPage == ch.pageIndex \/ ch.keyword \/ ch.pageSize
        runSave == ch.entity \/ ch.visibility \/ ch.pageSize
        a1 == IF runDesc THEN DescriptionEffect(c, c) ELSE c
        a2 == IF runPage THEN PageEffect(c, a1) ELSE a1
        a3 == IF runSave THEN SaveEffect(c, a2) ELSE a2
    IN [s |-> a3,
        ch |-> [entity |-> FALSE,
                sorting |-> FALSE,
                pageIndex |-> a3.pageIndex # c.pageIndex,
                keyword |-> a3.keyword # c.keyword,
                pageSize |-> a3.pageSize # c.pageSize,
                \* getColumnVisibility returns a new object each time
                visibility |-> runDesc,
                location |-> FALSE]]

\* re-render and run effects until no dependency has changed
RECURSIVE Settle(_, _)
Settle(s, ch) ==
    IF ch = NoChange THEN s
    ELSE LET r == Commit(s, ch) IN Settle(r.s, r.ch)

\* --------------------------------------- effects of the list with URL sync
\* The DataTable that keeps its page in the URL has the same state and two
\* more effects; its page size is not stored.

\* function reset() of the list with URL sync: setPagination keeps pageSize
UrlReset(c, a) ==
    [a EXCEPT !.keyword = "",
              !.initialized = FALSE,
              !.labels = NoLabels,
              !.entityItems = <<>>,
              !.pageCount = 0,
              !.entities = NoRows,
              !.pageSize = c.pageSize,
              !.pageIndex = Sentinel,
              !.columnVisibility = getColumnVisibility(a.storeVisibility, c.entity)]

\* useAsync(async () => { reset(); ... await getEntityDescriptions(entity) ...},
\*          [entity, sorting]) up to the await; its closure holds searchParams
UrlDescriptionEffect(c, a) ==
    [UrlReset(c, a) EXCEPT !.descReqs =
        Append(@, [entity |-> c.entity, sorting |-> c.sorting,
                   roles |-> c.roles, pageSize |-> c.pageSize,
                   stale |-> FALSE, urlPage |-> c.urlPage])]

\* useAsync(async () => { ... await getEntities(...) ... }, [pageIndex, keyword])
\* up to the await
UrlPageEffect(c, a) ==
    IF c.pageIndex < 0 THEN a
    ELSE IF PageFetchBlocked(c) THEN a
    ELSE [a EXCEPT !.loading = TRUE,
                   !.pageReqs = Append(@, [entity |-> c.entity,
                                           page_size |-> c.pageSize,
                                           page |-> c.pageIndex,
                                           keyword |-> c.keyword,
                                           orders |-> BuildOrders(c.sorting)])]

\* mutant: the history effect leaving the page index alone
UrlHistoryEffectNever(c, a) == a

\* useEffect(() => { ... setPagination({pageIndex: currentPage, pageSize}) },
\*           [location]): the page of the URL is taken over
UrlHistoryEffect(c, a) ==
    IF c.pageIndex < 0 THEN a
    ELSE IF c.pageIndex # PageParam(c.urlPage)
    THEN [a EXCEPT !.pageIndex = PageParam(c.urlPage), !.pageSize = c.pageSize]
    ELSE a

\* useEffect(() => { ... setSearchParams(params) }, [pageIndex]): the page
\* index is written to the URL
UrlPushEffect(c, a) ==
    IF c.pageIndex < 0 THEN a
    ELSE IF c.pageIndex # PageParam(c.urlPage)
    THEN [a EXCEPT !.urlPage = PageToString(c.pageIndex)]
    ELSE a

\* useEffect(() => { saveColumnVisibility(entity, columnVisibility) },
\*           [entity, columnVisibility])
UrlSaveEffect(c, a) ==
    [a EXCEPT !.storeVisibility =
                  saveColumnVisibility(@, c.entity, c.columnVisibility)]

\* one commit of the list with URL sync
UrlCommit(c, ch) ==
    LET runDesc == ch.entity \/ ch.sorting
        runPage == ch.pageIndex \/ ch.keyword
        runSave == ch.entity \/ ch.visibility
        a1 == IF runDesc THEN UrlDescriptionEffect(c, c) ELSE c
        a2 == IF runPage THEN UrlPageEffect(c, a1) ELSE a1
        a3 == IF ch.location THEN UrlHistoryEffect(c, a2) ELSE a2
        a4 == IF ch.pageIndex THEN UrlPushEffect(c, a3) ELSE a3
        a5 == IF runSave THEN UrlSaveEffect(c, a4) ELSE a4
    IN [s |-> a5,
        ch |-> [entity |-> FALSE,
                sorting |-> FALSE,
                pageIndex |-> a5.pageIndex # c.pageIndex,
                keyword |-> a5.keyword # c.keyword,
                pageSize |-> a5.pageSize # c.pageSize,
                visibility |-> runDesc,
                location |-> a5.urlPage # c.urlPage]]

RECURSIVE UrlSettle(_, _)
UrlSettle(s, ch) ==
    IF ch = NoChange THEN s
    ELSE LET r == UrlCommit(s, ch) IN UrlSettle(r.s, r.ch)

\* the dependencies that differ between two rendered states
Changed(old, new, vis) ==
    [entity |-> new.entity # old.entity,
     sorting |-> new.sorting # old.sorting,
     pageIndex |-> new.pageIndex # old.pageIndex,
     keyword |-> new.keyword # old.keyword,
     pageSize |-> new.pageSize # old.pageSize,
     visibility |-> vis,
     \* useLocation(): another path or another query
     location |-> new.entity # old.entity \/ new.urlPage # old.urlPage]

\* a handler took the list from the rendered state old to new
Render(old, new, vis) ==
    ListBecomes(IF old.urlSync
                THEN UrlSettle(new, Changed(old, new, vis))
                ELSE Settle(new, Changed(old, new, vis)))

\* every description request in flight was issued before this change
MarkStale(reqs) == [i \in 1..Len(reqs) |-> [reqs[i] EXCEPT !.stale = TRUE]]

\* ---------------------------------------------------------- initial state

\* the first render of DataTable and the effects of its mount
Mounted(e, rs, sv, sp) ==
    LET first == [entity |-> e, roles |-> rs, initialized |-> FALSE,
                  entityItems |-> <<>>, labels |-> NoLabels, pageCount |-> 0,
                  entities |-> NoRows, pageIndex |-> Sentinel,
                  pageSize |-> getPageSize(sp),
                  columnVisibility |-> getColumnVisibility(sv, e),
                  sorting |-> <<>>, loading |-> FALSE, keyword |-> "",
                  inputKeyword |-> "", storeVisibility |-> sv,
                  storePageSize |-> sp, descReqs |-> <<>>, pageReqs |-> <<>>,
                  urlSync |-> FALSE, urlPage |-> NullItem, fetchLog |-> LogOff]
    IN Settle(first, [entity |-> TRUE, sorting |-> TRUE, pageIndex |-> TRUE,
                      keyword |-> TRUE, pageSize |-> TRUE, visibility |-> TRUE,
                      location |-> TRUE])

\* the first render of the DataTable with URL sync on a URL whose page
\* parameter is page, and the effects of its mount
UrlMounted(e, rs, sv, page) ==
    LET first == [entity |-> e, roles |-> rs, initialized |-> FALSE,
                  entityItems |-> <<>>, labels |-> NoLabels, pageCount |-> 0,
                  entities |-> NoRows, pageIndex |-> Sentinel,
                  pageSize |-> DefaultPageSize,
                  columnVisibility |-> getColumnVisibility(sv, e),
                  sorting |-> <<>>, loading |-> FALSE, keyword |-> "",
                  inputKeyword |-> "", storeVisibility |-> sv,
                  storePageSize |-> NullItem, descReqs |-> <<>>, pageReqs |-> <<>>,
                  urlSync |-> TRUE, urlPage |-> page, fetchLog |-> LogOff]
    IN UrlSettle(first, [entity |-> TRUE, sorting |-> TRUE, pageIndex |-> TRUE,
                         keyword |-> TRUE, pageSize |-> TRUE, visibility |-> TRUE,
                         location |-> TRUE])

ListInit ==
    /\ \E e \in Entities :
          ListIs(Mounted(e, {"admin"}, [x \in Entities |-> <<>>], NullItem))
    /\ sortClicks = 0

\* ----------------------------------------------------------------- actions

\* mutant: the entity change also emptying the sort entries
ChangeEntityClearsSorting(e) ==
    /\ e # entity
    /\ Len(descReqs) < MaxDescInFlight
    /\ LET old == ListState
           new == [old EXCEPT !.entity = e, !.sorting = << >>,
                              !.descReqs = MarkStale(@)]
       IN Render(old, new, FALSE)
    /\ UNCHANGED << sortClicks, editorVars >>

\* the route's :entity parameter changes (sidebar navigation)
ChangeEntity(e) ==
    /\ e # entity
    /\ Len(descReqs) < MaxDescInFlight
    /\ LET old == ListState
           new == [old EXCEPT !.entity = e, !.descReqs = MarkStale(@)]
       IN Render(old, new, FALSE)
    /\ UNCHANGED << sortClicks, editorVars >>

\* click on the header button of a sortable column
ClickSort(col) ==
    /\ initialized
    /\ \E i \in 1..Len(entityItems) :
          entityItems[i].accessorKey = col /\ entityItems[i].sortable
    /\ Len(descReqs) < MaxDescInFlight
    /\ sortClicks < MaxSortClicks
    /\ LET old == ListState
           new == [old EXCEPT !.sorting = headerClick(@, col),
                              !.descReqs = MarkStale(@)]
       IN Render(old, new, FALSE)
    /\ sortClicks' = sortClicks + 1
    /\ UNCHANGED editorVars

\* fetchDescription resolves: the rest of the description effect
DescriptionOk(i) ==
    /\ i \in 1..Len(descReqs)
    /\ LET r == descReqs[i]
           description == pushOp(ServerDescription(r.entity))
           old == ListState
           new == [old EXCEPT
                     !.descReqs = RemoveAt(@, i),
                     !.labels = columnLabels(description),
                     !.entityItems = convertDescriptionToColumnDef(
                                         description, r.sorting, r.roles, r.entity),
                     !.pageIndex = 0,
                     !.pageSize = r.pageSize,
                     !.initialized = TRUE]
       IN Render(old, new, FALSE)
    /\ UNCHANGED << sortClicks, editorVars >>

\* mutant: the catch of the description effect fetching again
DescriptionFailRetries(i) ==
    /\ i \in 1..Len(descReqs)
    /\ LET old == ListState
           new == [old EXCEPT !.descReqs = Append(RemoveAt(@, i), @[i]),
                              !.initialized = TRUE,
                              !.fetchLog = LogFailure(@)]
       IN Render(old, new, FALSE)
    /\ UNCHANGED << sortClicks, editorVars >>

\* fetchDescription rejects: catch and finally of the description effect
DescriptionFail(i) ==
    /\ i \in 1..Len(descReqs)
    /\ LET old == ListState
           new == [old EXCEPT !.descReqs = RemoveAt(@, i),
                              !.initialized = TRUE,
                              !.fetchLog = LogFailure(@)]
       IN Render(old, new, FALSE)
    /\ UNCHANGED << sortClicks, editorVars >>

\* the rows of a list response, named by the request they answer
RowsFor(r) == << [id |-> "5", entity |-> r.entity, orders |-> r.orders] >>

\* if (result.page_count >= 0) setPageCount(result.page_count)
ApplyPageCount(known, r, page_count) ==
    IF page_count >= 0 THEN page_count ELSE known

\* listEntities resolves: the rest of the page effect
PageOk(i, page_count) ==
    /\ i \in 1..Len(pageReqs)
    /\ LET r == pageReqs[i]
           old == ListState
           new == [old EXCEPT
                     !.pageReqs = RemoveAt(@, i),
                     !.entities = RowsFor(r),
                     !.pageCount = ApplyPageCount(@, r, page_count),
                     !.loading = FALSE,
                     !.fetchLog = LogLoad(@, RowsFor(r),
                                     ApplyPageCount(old.pageCount, r, page_count))]
       IN Render(old, new, FALSE)
    /\ UNCHANGED << sortClicks, editorVars >>

\* mutant: the catch of the page effect emptying the rows and the count
PageFailClears(i) ==
    /\ i \in 1..Len(pageReqs)
    /\ LET old == ListState
           new == [old EXCEPT !.pageReqs = RemoveAt(@, i), !.loading = FALSE,
                              !.entities = NoRows, !.pageCount = 0,
                              !.fetchLog = LogFailure(@)]
       IN Render(old, new, FALSE)
    /\ UNCHANGED << sortClicks, editorVars >>

\* mutant: the failure of the page fetch without the finally that clears loading
PageFailKeepsLoading(i) ==
    /\ i \in 1..Len(pageReqs)
    /\ LET old == ListState
           new == [old EXCEPT !.pageReqs = RemoveAt(@, i),
                              !.fetchLog = LogFailure(@)]
       IN Render(old, new, FALSE)
    /\ UNCHANGED << sortClicks, editorVars >>

\* listEntities rejects: catch and finally of the page effect
PageFail(i) ==
    /\ i \in 1..Len(pageReqs)
    /\ LET old == ListState
           new == [old EXCEPT !.pageReqs = RemoveAt(@, i), !.loading = FALSE,
                              !.fetchLog = LogFailure(@)]
       IN Render(old, new, FALSE)
    /\ UNCHANGED << sortClicks, editorVars >>

\* onChange of the search input
TypeKeyword(k) ==
    /\ initialized
    /\ k # inputKeyword
    /\ LET old == ListState
           new == [old EXCEPT !.inputKeyword = k]
       IN Render(old, new, FALSE)
    /\ UNCHANGED << sortClicks, editorVars >>

\* mutant: a search submission that keeps the page index
submitSearchKeepsPage ==
    /\ initialized
    /\ LET old == ListState
           new == [old EXCEPT !.keyword = old.inputKeyword]
       IN Render(old, new, FALSE)
    /\ UNCHANGED << sortClicks, editorVars >>

\* const submitSearch = () => { setPagination({pageIndex: 0, pageSize});
\*                              setKeyword(inputKeyword) }
submitSearch ==
    /\ initialized
    /\ LET old == ListState
           new == [old EXCEPT !.pageIndex = 0, !.keyword = old.inputKeyword]
       IN Render(old, new, FALSE)
    /\ UNCHANGED << sortClicks, editorVars >>

\* onChange of the page-size input
ChangePageSize(n) ==
    /\ initialized
    /\ LET old == ListState
           new == IF n <= 0 THEN old
                  ELSE [old EXCEPT !.pageSize = n,
                                   !.storePageSize = savePageSize(n)]
       IN Render(old, new, FALSE)
    /\ UNCHANGED << sortClicks, editorVars >>

\* table.getCanNextPage() of @tanstack/react-table with a manual pageCount
getCanNextPage(s) ==
    IF s.pageCount = -1 THEN TRUE
    ELSE IF s.pageCount = 0 THEN FALSE
    ELSE s.pageIndex < s.pageCount - 1

getCanPreviousPage(s) == s.pageIndex > 0

\* table.setPageIndex clamps to 0 .. pageCount - 1
setPageIndex(s, p) ==
    [s EXCEPT !.pageIndex = Max(0, Min(p, s.pageCount - 1))]

\* onClick={() => table.nextPage()}, disabled={!table.getCanNextPage()}
nextPage ==
    /\ initialized
    /\ getCanNextPage(ListState)
    /\ LET old == ListState
       IN Render(old, setPageIndex(old, old.pageIndex + 1), FALSE)
    /\ UNCHANGED << sortClicks, editorVars >>

\* onClick={() => table.previousPage()}, disabled={!table.getCanPreviousPage()}
previousPage ==
    /\ initialized
    /\ getCanPreviousPage(ListState)
    /\ LET old == ListState
       IN Render(old, setPageIndex(old, old.pageIndex - 1), FALSE)
    /\ UNCHANGED << sortClicks, editorVars >>

\* column.toggleVisibility(!!value) of a column of the "columns" menu
toggleVisibility(col, value) ==
    /\ initialized
    /\ \E i \in 1..Len(entityItems) : entityItems[i].accessorKey = col
    /\ LET old == ListState
           m == old.columnVisibility
           new == [old EXCEPT !.columnVisibility =
                      [c \in DOMAIN m \cup {col} |-> IF c = col THEN value ELSE m[c]]]
       IN Render(old, new, TRUE)
    /\ UNCHANGED << sortClicks, editorVars >>

ListNext ==
    \/ \E e \in Entities : ChangeEntity(e)
    \/ \E col \in SortClickColumns : ClickSort(col)
    \/ \E i \in 1..Len(descReqs) : DescriptionOk(i)
    \/ \E i \in 1..Len(descReqs) : DescriptionFail(i)
    \/ \E i \in 1..Len(pageReqs), pc \in PageCountAnswers : PageOk(i, pc)
    \/ \E i \in 1..Len(pageReqs) : PageFail(i)
    \/ \E k \in Keywords : TypeKeyword(k)
    \/ submitSearch
    \/ nextPage
    \/ previousPage

\* the list with its page-size input in use
ListSizeNext ==
    \/ ListNext
    \/ \E n \in PageSizeInputs : ChangePageSize(n)

\* the list of "settings" with the headers of both sortable columns in use
ListSortNext ==
    \/ \E col \in SortColumns : ClickSort(col)
    \/ \E i \in 1..Len(descReqs) : DescriptionOk(i)
    \/ \E i \in 1..Len(descReqs) : DescriptionFail(i)
    \/ \E i \in 1..Len(pageReqs), pc \in PageCountAnswers : PageOk(i, pc)
    \/ \E i \in 1..Len(pageReqs) : PageFail(i)

\* the list with its columns shown, searched and paged
ListPageNext ==
    \/ \E i \in 1..Len(pageReqs), pc \in PageCountAnswers : PageOk(i, pc)
    \/ \E i \in 1..Len(pageReqs) : PageFail(i)
    \/ \E k \in Keywords : TypeKeyword(k)
    \/ submitSearch
    \/ nextPage
    \/ previousPage

\* {entity != "users" && <Button onClick={() => goToEntityForm(entity, "0")}>}
createOffered(e) == e # "users"

\* the ColumnDef of the operations column, the last item of the description
opColumn(s) == s.entityItems[Len(s.entityItems)]

\* the list with its search and its "columns" menu in use
ListResetNext ==
    \/ \E e \in Entities : ChangeEntity(e)
    \/ \E col \in SortClickColumns : ClickSort(col)
    \/ \E i \in 1..Len(descReqs) : DescriptionOk(i)
    \/ \E i \in 1..Len(pageReqs) : PageOk(i, 1)
    \/ \E k \in Keywords : TypeKeyword(k)
    \/ submitSearch
    \/ \E col \in VisibilityColumns : toggleVisibility(col, FALSE)

\* the list with its "columns" menu and its page-size input in use
ListPersistNext ==
    \/ \E e \in Entities : ChangeEntity(e)
    \/ \E col \in SortClickColumns : ClickSort(col)
    \/ \E i \in 1..Len(descReqs) : DescriptionOk(i)
    \/ \E i \in 1..Len(pageReqs) : PageOk(i, 1)
    \/ \E n \in PageSizeInputs : ChangePageSize(n)
    \/ \E col \in VisibilityColumns, v \in BOOLEAN : toggleVisibility(col, v)

\* ---------------------------------------------- the list with URL sync

\* the route's :entity parameter changes: the sidebar's links carry no query
UrlChangeEntity(e) ==
    /\ e # entity
    /\ Len(descReqs) < MaxDescInFlight
    /\ LET old == ListState
           new == [old EXCEPT !.entity = e, !.urlPage = NullItem,
                              !.descReqs = MarkStale(@)]
       IN Render(old, new, FALSE)
    /\ UNCHANGED << sortClicks, editorVars >>

\* getEntityDescriptions resolves: the rest of the description effect, with
\* the searchParams of the render that ran the effect
UrlDescriptionOk(i) ==
    /\ i \in 1..Len(descReqs)
    /\ LET r == descReqs[i]
           description == pushOp(ServerDescription(r.entity))
           old == ListState
           new == [old EXCEPT
                     !.descReqs = RemoveAt(@, i),
                     !.labels = columnLabels(description),
                     !.entityItems = convertDescriptionToColumnDef(
                                         description, r.sorting, r.roles, r.entity),
                     !.pageIndex = PageParam(r.urlPage),
                     !.pageSize = r.pageSize,
                     !.initialized = TRUE]
       IN Render(old, new, FALSE)
    /\ UNCHANGED << sortClicks, editorVars >>

\* the browser's back or forward button, or an edited address: the URL's
\* page parameter becomes page
HistoryNavigate(page) ==
    /\ page # urlPage
    /\ LET old == ListState
           new == [old EXCEPT !.urlPage = page]
       IN Render(old, new, FALSE)
    /\ UNCHANGED << sortClicks, editorVars >>

UrlNext ==
    \/ \E e \in Entities : UrlChangeEntity(e)
    \/ \E i \in 1..Len(descReqs) : UrlDescriptionOk(i)
    \/ \E i \in 1..Len(descReqs) : DescriptionFail(i)
    \/ \E i \in 1..Len(pageReqs), pc \in PageCountAnswers : PageOk(i, pc)
    \/ \E i \in 1..Len(pageReqs) : PageFail(i)
    \/ nextPage
    \/ previousPage
    \/ \E page \in UrlPageParams : HistoryNavigate(page)

\* the list with its fetches failing or succeeding, and paged
ListFailNext ==
    \/ \E e \in Entities : ChangeEntity(e)
    \/ \E col \in SortClickColumns : ClickSort(col)
    \/ \E i \in 1..Len(descReqs) : DescriptionOk(i)
    \/ \E i \in 1..Len(descReqs) : DescriptionFail(i)
    \/ \E i \in 1..Len(pageReqs) : PageOk(i, 2)
    \/ \E i \in 1..Len(pageReqs) : PageFail(i)
    \/ nextPage
    \/ previousPage

\* ------------------------------------------------------------------ editor
\* A field value is written as its canonical text: numbers as numerals,
\* strings in quotes, so that two values are deep-equal exactly when their
\* texts are equal and a number never equals a string.

Undefined == "undefined"
Null == "null"
EmptyString == "''"

NumberValues == {"0", "1", "5"}
\* a string of 51 characters, and the length of a string value
LongString == "'x51'"
StringValues == {"''", "'a'", "'b'", "'r'", "'e'", "'t0'", "'now'", "'f'", "'ct'",
                 LongString}
\* arrays of strings
ArrayValues == {"['a']"}

strLength(v) == IF v = LongString THEN 51 ELSE IF v = EmptyString THEN 0 ELSE 3

\* z.string().min(0).max(50)
MaxStringLength == 50

isString(v) == v \in StringValues
isNil(v) == v \in {Undefined, Null}

\* lodash isEqual on two field values
isEqual(v, w) == v = w

\* an object with no key
EmptyObject == [k \in {} |-> Undefined]

\* object[key], undefined when the key is missing
Get(object, key) == IF key \in DOMAIN object THEN object[key] ELSE Undefined

Put(object, key, v) ==
    [k \in DOMAIN object \cup {key} |-> IF k = key THEN v ELSE object[k]]

\* the identifiers of the editor's route; "0" opens the editor to create
Ids == {"0", "5"}

\* mutant: the identifier compared with the number 0
isCreatedNever(id) == FALSE

\* const isCreated = id === "0"
isCreated(id) == id = "0"

\* const ignoreFields = ["id", "created_at", "updated_at"]
ignoreFields == {"id", "created_at", "updated_at"}

ItemNames(description) ==
    { description.items[i].name : i \in 1..Len(description.items) }

ItemOf(description, name) ==
    description.items[CHOOSE i \in 1..Len(description.items) :
                          description.items[i].name = name]

\* mutant: the schema without the bound on the length of a string
schemaAcceptsAnyLength(category, v) ==
    CASE category = "number" -> v \in NumberValues
      [] category = "status" -> v \in NumberValues
      [] category = "texts" -> v \in ArrayValues
      [] OTHER -> isString(v)

\* the zod schema built from the description: whether v has the shape that
\* the category asks for
schemaAccepts(category, v) ==
    CASE category = "number" -> v \in NumberValues
      [] category = "status" -> v \in NumberValues
      [] category = "texts" -> v \in ArrayValues
      [] category = "file" -> isString(v)
      [] OTHER -> isString(v) /\ strLength(v) <= MaxStringLength

\* zodResolver(z.object(schema)): every key of the schema has its shape
validates(description, values) ==
    \A name \in ItemNames(description) :
        schemaAccepts(ItemOf(description, name).category, Get(values, name))

\* what the resolver hands to onSubmit: the keys of the schema only
parsed(description, values) ==
    [name \in ItemNames(description) |-> Get(values, name)]

\* the value the create branch of the load effect binds to an item
createDefault(item) ==
    IF item.name = "id" THEN "0"
    ELSE CASE item.category = "datetime" -> "'now'"
           [] item.category = "status" -> "1"
           [] OTHER -> IF item.auto_created \/ item.readonly
                       THEN EmptyString ELSE Undefined

createDefaults(description) ==
    [name \in ItemNames(description) |-> createDefault(ItemOf(description, name))]

\* GET record(E, id): what the service may answer
ServerRecords(e, id) ==
    IF e = "users"
    THEN { [id |-> id, name |-> "'a'", remark |-> r, etag |-> "'e'"] :
             r \in {Null, "'r'"} }
    ELSE IF e = "settings"
    THEN { [id |-> id, name |-> "'a'", status |-> s, created_at |-> "'t0'"] :
             s \in {"0", "1"} }
    ELSE { [id |-> id, file |-> "'f'", status |-> "1"] }

\* mutant: the fetched record bound as it came
normalizeNothing(data) == data

\* Object.keys(data).forEach(key => { if (isNil(data[key])) data[key] = "" })
normalize(data) ==
    [k \in DOMAIN data |-> IF isNil(data[k]) THEN EmptyString ELSE data[k]]

\* form.setValue(key, data[key]) for every key of data
bindAll(values, data) ==
    [k \in DOMAIN values \cup DOMAIN data |->
        IF k \in DOMAIN data THEN data[k] ELSE values[k]]

\* mutant: the diff as the keys that are equal to the baseline
updateDataOfEqual(values, baseline) ==
    LET keys == { k \in DOMAIN values : isEqual(values[k], Get(baseline, k)) }
    IN [k \in keys |-> values[k]]

\* mutant: the diff without the comparison, every submitted key
updateDataOfAll(values, baseline) == values

\* onSubmit: the keys of values that are not deep-equal to the baseline
updateDataOf(values, baseline) ==
    LET keys == { k \in DOMAIN values : ~isEqual(values[k], Get(baseline, k)) }
    IN [k \in keys |-> values[k]]

\* createEntity: the body of the POST, without id, nil and empty strings
createParams(data) ==
    LET keys == { k \in DOMAIN data :
                    /\ k # "id"
                    /\ ~isNil(data[k])
                    /\ (isString(data[k]) => data[k] # EmptyString) }
    IN [k \in keys |-> data[k]]

\* mutant: the fold of another object than the baseline
foldInto_Dropped(baseline, updateData) == baseline

\* keys.forEach(key => { entityData[key] = updateData[key] })
foldInto(baseline, updateData) ==
    [k \in DOMAIN baseline \cup DOMAIN updateData |->
        IF k \in DOMAIN updateData THEN updateData[k] ELSE baseline[k]]

\* mutant: the form rendered without waiting for the baseline
formVisibleWithoutBaseline == formState = "mounted"

\* if (isNil(entityData.id)) return <Loading />
formVisible ==
    formState = "mounted" /\ ~isNil(Get(entityData, "id"))

\* the items rendered as fields of the form
formItems(description, id) ==
    { name \in ItemNames(description) :
        /\ name \notin ignoreFields
        /\ ~(isCreated(id) /\ ItemOf(description, name).auto_created) }

\* what the widget of an item lets the user bind
FieldInputs(item) ==
    CASE item.category = "status" -> {"0", "1"}
      [] item.category = "text" -> {"'a'", "'b'", LongString}
      [] item.category = "file" -> {LongString}
      [] OTHER -> {}

\* whether the widget of an item takes input: the text input is disabled
\* when readonly, and readonly is forced to false when creating; the select,
\* calendar and file widgets are given no disabled attribute
widgetEnabled(item, id) ==
    IF item.category \in {"status", "texts", "datetime", "file"} THEN TRUE
    ELSE IF isCreated(id) THEN TRUE ELSE ~item.readonly

NoDescription == [items |-> <<>>, support_orders |-> {}, modify_roles |-> {}]

NoToast == "none"
ToastNothingChanged == "nothing changed"
ToastLoadFailed == "load failed"
ToastSubmitFailed == "submit failed"
ToastDescriptionFailed == "description failed"

TipsCreated == "created"
TipsUpdated == "updated"

\* the editor is not open
EditorIdle ==
    /\ edEntity = "users"
    /\ edId = "0"
    /\ edInitialized = FALSE
    /\ edDescription = NoDescription
    /\ formState = "unmounted"
    /\ formValues = EmptyObject
    /\ entityData = EmptyObject
    /\ processing = FALSE
    /\ tips = ""
    /\ edDescReqs = <<>>
    /\ getReqs = <<>>
    /\ submitReqs = <<>>
    /\ edLast = "none"
    /\ toastRaised = NoToast

\* EntityEditor mounts on the route /:entity/:id; its effect clears
\* initialized and awaits fetchDescription(entity)
EditorInit ==
    /\ edEntity \in EditorEntities
    /\ edId \in Ids
    /\ edInitialized = FALSE
    /\ edDescription = NoDescription
    /\ formState = "unmounted"
    /\ formValues = EmptyObject
    /\ entityData = EmptyObject
    /\ processing = FALSE
    /\ tips = ""
    /\ edDescReqs = << [entity |-> edEntity] >>
    /\ getReqs = <<>>
    /\ submitReqs = <<>>
    /\ edLast = "mount"
    /\ toastRaised = NoToast

\* the load effect of EntityForm, useAsync(..., [entity, id]), up to its await
LoadEffect(description) ==
    IF isCreated(edId)
    THEN /\ entityData' = [id |-> "0"]
         /\ formValues' = createDefaults(description)
         /\ getReqs' = getReqs
    ELSE /\ entityData' = EmptyObject
         /\ formValues' = EmptyObject
         /\ getReqs' = Append(getReqs, [entity |-> edEntity, id |-> edId])

\* fetchDescription resolves in EntityEditor; EntityForm mounts with the
\* description and its load effect runs
EdDescriptionOk(i) ==
    /\ i \in 1..Len(edDescReqs)
    /\ edDescReqs' = RemoveAt(edDescReqs, i)
    /\ edDescription' = ServerDescription(edDescReqs[i].entity)
    /\ edInitialized' = TRUE
    /\ formState' = "mounted"
    /\ processing' = FALSE
    /\ tips' = ""
    /\ LoadEffect(edDescription')
    /\ edLast' = "descriptionOk"
    /\ toastRaised' = NoToast
    /\ UNCHANGED << edEntity, edId, submitReqs, listVars >>

\* fetchDescription rejects in EntityEditor: initialized is set all the same
\* and EntityForm is rendered with the description {}, whose items.forEach throws
EdDescriptionFail(i) ==
    /\ i \in 1..Len(edDescReqs)
    /\ edDescReqs' = RemoveAt(edDescReqs, i)
    /\ edInitialized' = TRUE
    /\ formState' = "crashed"
    /\ edLast' = "descriptionFail"
    /\ toastRaised' = ToastDescriptionFailed
    /\ UNCHANGED << edEntity, edId, edDescription, formValues, entityData,
                    processing, tips, getReqs, submitReqs, listVars >>

\* getEntity resolves: the rest of the load effect
GetOk(i, data) ==
    /\ i \in 1..Len(getReqs)
    /\ data \in ServerRecords(getReqs[i].entity, getReqs[i].id)
    /\ getReqs' = RemoveAt(getReqs, i)
    /\ formValues' = bindAll(formValues, normalize(data))
    /\ entityData' = normalize(data)
    /\ edLast' = "getOk"
    /\ toastRaised' = NoToast
    /\ UNCHANGED << edEntity, edId, edInitialized, edDescription, formState,
                    processing, tips, edDescReqs, submitReqs, listVars >>

\* getEntity rejects: the catch of the load effect
GetFail(i) ==
    /\ i \in 1..Len(getReqs)
    /\ getReqs' = RemoveAt(getReqs, i)
    /\ edLast' = "getFail"
    /\ toastRaised' = ToastLoadFailed
    /\ UNCHANGED << edEntity, edId, edInitialized, edDescription, formState,
                    formValues, entityData, processing, tips, edDescReqs,
                    submitReqs, listVars >>

\* the user binds a value through the widget of a field
SetValue(name, v) ==
    /\ formVisible
    /\ name \in formItems(edDescription, edId)
    /\ widgetEnabled(ItemOf(edDescription, name), edId)
    /\ v \in FieldInputs(ItemOf(edDescription, name))
    /\ formValues' = IF ItemOf(edDescription, name).category = "file"
                     THEN Put(Put(formValues, name, v), "content_type", "'ct'")
                     ELSE Put(formValues, name, v)
    /\ edLast' = "setValue"
    /\ toastRaised' = NoToast
    /\ UNCHANGED << edEntity, edId, edInitialized, edDescription, formState,
                    entityData, processing, tips, edDescReqs, getReqs,
                    submitReqs, listVars >>

\* mutant: onSubmit without its branch on isCreated
submitRequestPatchOnly(e, id, values, updateData) ==
    [method |-> "PATCH", entity |-> e, id |-> id,
     body |-> updateData, updateData |-> updateData]

\* the request onSubmit awaits: createEntity when creating, else updateEntity
submitRequest(e, id, values, updateData) ==
    IF isCreated(id)
    THEN [method |-> "POST", entity |-> e, id |-> "",
          body |-> createParams(values), updateData |-> updateData]
    ELSE [method |-> "PATCH", entity |-> e, id |-> id,
          body |-> updateData, updateData |-> updateData]

\* mutant: onSubmit without its guard on processing
submitBlockedNever(inFlight) == FALSE

\* if (processing) return
submitBlocked(inFlight) == inFlight

\* the form is submitted: form.handleSubmit(onSubmit) validates and, when the
\* values pass, runs onSubmit up to its await
Submit ==
    /\ formVisible
    /\ edLast' = "submit"
    /\ LET values == parsed(edDescription, formValues)
           updateData == updateDataOf(values, entityData)
       IN IF ~validates(edDescription, formValues)
          THEN /\ toastRaised' = NoToast
               /\ UNCHANGED << processing, tips, submitReqs >>
          ELSE IF submitBlocked(processing)
          THEN /\ toastRaised' = NoToast
               /\ UNCHANGED << processing, tips, submitReqs >>
          ELSE IF DOMAIN updateData = {}
          THEN /\ toastRaised' = ToastNothingChanged
               /\ UNCHANGED << processing, tips, submitReqs >>
          ELSE /\ toastRaised' = NoToast
               /\ tips' = ""
               /\ processing' = TRUE
               /\ submitReqs' = Append(submitReqs,
                      submitRequest(edEntity, edId, values, updateData))
    /\ UNCHANGED << edEntity, edId, edInitialized, edDescription, formState,
                    formValues, entityData, edDescReqs, getReqs, listVars >>

\* mutant: the success branch folding the values bound when the response comes
SubmitOkFoldsCurrent(i) ==
    /\ i \in 1..Len(submitReqs)
    /\ submitReqs' = RemoveAt(submitReqs, i)
    /\ IF submitReqs[i].method = "POST"
       THEN /\ tips' = TipsCreated
            /\ entityData' = entityData
       ELSE /\ tips' = TipsUpdated
            /\ entityData' = foldInto(entityData,
                   updateDataOf(parsed(edDescription, formValues), entityData))
    /\ processing' = FALSE
    /\ edLast' = "submitOk"
    /\ toastRaised' = NoToast
    /\ UNCHANGED << edEntity, edId, edInitialized, edDescription, formState,
                    formValues, edDescReqs, getReqs, listVars >>

\* createEntity or updateEntity resolves: the rest of onSubmit
SubmitOk(i) ==
    /\ i \in 1..Len(submitReqs)
    /\ submitReqs' = RemoveAt(submitReqs, i)
    /\ IF submitReqs[i].method = "POST"
       THEN /\ tips' = TipsCreated
            /\ entityData' = entityData
       ELSE /\ tips' = TipsUpdated
            /\ entityData' = foldInto(entityData, submitReqs[i].updateData)
    /\ processing' = FALSE
    /\ edLast' = "submitOk"
    /\ toastRaised' = NoToast
    /\ UNCHANGED << edEntity, edId, edInitialized, edDescription, formState,
                    formValues, edDescReqs, getReqs, listVars >>

\* mutant: the failure branch without the finally that clears processing
SubmitFailKeepsProcessing(i) ==
    /\ i \in 1..Len(submitReqs)
    /\ submitReqs' = RemoveAt(submitReqs, i)
    /\ edLast' = "submitFail"
    /\ toastRaised' = ToastSubmitFailed
    /\ UNCHANGED << edEntity, edId, edInitialized, edDescription, formState,
                    formValues, entityData, processing, tips, edDescReqs,
                    getReqs, listVars >>

\* createEntity or updateEntity rejects: catch and finally of onSubmit
SubmitFail(i) ==
    /\ i \in 1..Len(submitReqs)
    /\ submitReqs' = RemoveAt(submitReqs, i)
    /\ processing' = FALSE
    /\ edLast' = "submitFail"
    /\ toastRaised' = ToastSubmitFailed
    /\ UNCHANGED << edEntity, edId, edInitialized, edDescription, formState,
                    formValues, entityData, tips, edDescReqs, getReqs,
                    listVars >>

EditorNext ==
    \/ \E i \in 1..Len(edDescReqs) : EdDescriptionOk(i)
    \/ \E i \in 1..Len(edDescReqs) : EdDescriptionFail(i)
    \/ \E i \in 1..Len(getReqs) :
          \E data \in ServerRecords(getReqs[i].entity, getReqs[i].id) : GetOk(i, data)
    \/ \E i \in 1..Len(getReqs) : GetFail(i)
    \/ \E name \in {"name", "remark", "status", "file"},
          v \in NumberValues \cup StringValues :
          SetValue(name, v)
    \/ Submit
    \/ \E i \in 1..Len(submitReqs) : SubmitOk(i)
    \/ \E i \in 1..Len(submitReqs) : SubmitFail(i)

\* ------------------------------------------------- from the list to the editor

\* the list is on screen until the router shows the editor
ListOnScreen == edLast = "none"

\* goToEntityForm(entity, id): the router shows EntityEditor on /:entity/:id,
\* which mounts and awaits fetchDescription(entity)
goToEntityForm(e, id) ==
    /\ edEntity' = e
    /\ edId' = id
    /\ edDescReqs' = << [entity |-> e] >>
    /\ edLast' = "mount"
    /\ UNCHANGED << edInitialized, edDescription, formState, formValues,
                    entityData, processing, tips, getReqs, submitReqs,
                    toastRaised >>

\* click on the "edit" button of a row's operations cell
ClickEdit(row) ==
    /\ ListOnScreen
    /\ initialized
    /\ entityItems # <<>>
    /\ opColumn(ListState).action = "edit"
    /\ row \in 1..Len(entities)
    /\ goToEntityForm(opColumn(ListState).entity, entities[row].id)
    /\ UNCHANGED listVars

\* click on the "view" button of a row's operations cell: it has no onClick
ClickView(row) ==
    /\ ListOnScreen
    /\ initialized
    /\ entityItems # <<>>
    /\ opColumn(ListState).action = "view"
    /\ row \in 1..Len(entities)
    /\ UNCHANGED vars

\* click on the "create" button of the list
ClickCreate ==
    /\ ListOnScreen
    /\ initialized
    /\ createOffered(entity)
    /\ goToEntityForm(entity, "0")
    /\ UNCHANGED listVars

\* the list with its row actions and its create button, for each actor
ListRolesNext ==
    \/ ListOnScreen /\ \E e \in Entities : ChangeEntity(e)
    \/ ListOnScreen /\ \E i \in 1..Len(descReqs) : DescriptionOk(i)
    \/ ListOnScreen /\ \E i \in 1..Len(descReqs) : DescriptionFail(i)
    \/ ListOnScreen /\ \E i \in 1..Len(pageReqs) : PageOk(i, 1)
    \/ ListOnScreen /\ \E i \in 1..Len(pageReqs) : PageFail(i)
    \/ \E row \in 1..Len(entities) : ClickEdit(row)
    \/ \E row \in 1..Len(entities) : ClickView(row)
    \/ ClickCreate

\* ------------------------------------------------------------------ claims

\* a step that delivers the response of the i-th page request in flight
PageResponse(i) == pageReqs' = RemoveAt(pageReqs, i)

\* a step that delivers the response of the i-th description request in flight
DescriptionResponse(i) == descReqs' = RemoveAt(descReqs, i)

\* C1: at most one page fetch is in flight in a list at any time; while one
\* is in flight no step (a change of page index, keyword or page size, or
\* the delivery of the response itself) issues another page request.
C1_OnePageFetch ==
    /\ [](Len(pageReqs) <= 1)
    /\ [][pageReqs # <<>> => pageReqs' \in {pageReqs, <<>>}]_vars

\* C1 witness: a page fetch is in flight and the page index, keyword or page
\* size has moved on from what it was issued with: a trigger was dropped.
C1_Witness ==
    /\ Len(pageReqs) = 1
    /\ pageIndex >= 0
    /\ \/ pageReqs[1].page # pageIndex
       \/ pageReqs[1].keyword # keyword
       \/ pageReqs[1].page_size # pageSize

\* C2: when a page fetch issued with counted=false completes while a
\* positive page count is known, the known page count stays what it was,
\* whatever page_count the response carries.
C2_StickyPageCount ==
    [][\A i \in 1..Len(pageReqs) :
          (PageResponse(i) /\ ~pageReqs[i].counted /\ pageCount > 0)
              => pageCount' = pageCount]_vars

\* C3: the response of a description fetch that was issued before the latest
\* change of entity type or sort entries is discarded: it sets neither the
\* columns nor the labels nor the page index.
C3_StaleDescriptionDiscarded ==
    [][\A i \in 1..Len(descReqs) :
          (DescriptionResponse(i) /\ descReqs[i].stale)
              => /\ entityItems' = entityItems
                 /\ labels' = labels
                 /\ pageIndex' = pageIndex]_vars

\* the orders string of the sort state reached by n clicks on the header of
\* the unsorted column "name": ascending and descending alternate
OrdersAfterClicks(n) ==
    IF n = 0 THEN "" ELSE IF n % 2 = 1 THEN "name" ELSE "-name"

SubmittedValues == parsed(edDescription, formValues)
SubmittedDiff == updateDataOf(SubmittedValues, entityData)

\* a step in which a validated submit reaches onSubmit
SubmitAttempt ==
    /\ edLast' = "submit"
    /\ formVisible
    /\ validates(edDescription, formValues)

\* every bound value deep-equals the baseline value of its key
NothingEdited ==
    \A k \in ItemNames(edDescription) :
        isEqual(Get(formValues, k), Get(entityData, k))

\* the step issues no request, raises the "nothing changed" toast and
\* leaves the baseline, the bound values and the in-flight flag alone
AbortedAsUnchanged ==
    /\ submitReqs' = submitReqs
    /\ toastRaised' = ToastNothingChanged
    /\ entityData' = entityData
    /\ formValues' = formValues
    /\ processing' = processing

\* C4 (as amended): in update mode a submit made while no submission is in
\* flight, with every bound value deep-equal to the baseline value of its
\* key, issues no request, raises the "nothing changed" notice and leaves
\* baseline, bound values and the in-flight flag unchanged; and the diff of
\* the baseline with itself is empty.
C4_EmptyDiffAborts ==
    /\ [][(SubmitAttempt /\ edId # "0" /\ ~processing /\ NothingEdited)
             => AbortedAsUnchanged]_vars
    /\ [](formVisible => DOMAIN updateDataOf(entityData, entityData) = {})

\* C4 witness: the last event was a submit in update mode that was aborted
\* with the "nothing changed" notice
C4_Witness ==
    /\ edId # "0"
    /\ edLast = "submit"
    /\ toastRaised = ToastNothingChanged
    /\ NothingEdited
    /\ submitReqs = <<>>

\* C4 as stated: every update-mode submit with an empty diff raises the
\* notice, also one made while a submission is in flight
C4_AsStated ==
    [][(SubmitAttempt /\ edId # "0" /\ NothingEdited)
          => AbortedAsUnchanged]_vars

\* the request a step has issued
IssuedSubmit == submitReqs'[Len(submitReqs')]

\* C5: in update mode the body of an issued PATCH is the map of the schema
\* keys whose bound value is not deep-equal to the baseline, each with its
\* bound value, and no other key.
C5_PatchBodyIsDiff ==
    [][(Len(submitReqs') > Len(submitReqs) /\ edId # "0")
          => /\ IssuedSubmit.method = "PATCH"
             /\ DOMAIN IssuedSubmit.body =
                  { k \in ItemNames(edDescription) :
                      Get(formValues, k) # Get(entityData, k) }
             /\ DOMAIN IssuedSubmit.body # {}
             /\ \A k \in DOMAIN IssuedSubmit.body :
                   IssuedSubmit.body[k] = formValues[k]]_vars

\* C5 witness: baseline {name: a, status: 1}, bound {name: a, status: 0} and
\* the PATCH {status: 0} in flight
C5_Witness ==
    /\ Len(submitReqs) = 1
    /\ submitReqs[1].method = "PATCH"
    /\ submitReqs[1].body = [status |-> "0"]
    /\ Get(entityData, "name") = "'a'"
    /\ Get(entityData, "status") = "1"
    /\ Get(formValues, "name") = "'a'"
    /\ Get(formValues, "status") = "0"

\* the bound values are what the i-th request in flight was submitted with
BoundAsSubmitted(i) ==
    \A k \in ItemNames(edDescription) :
        Get(formValues, k) = IF k \in DOMAIN submitReqs[i].body
                             THEN submitReqs[i].body[k]
                             ELSE Get(entityData, k)

\* C6: when a PATCH succeeds the baseline holds the submitted value of every
\* submitted key; if the bound values are still the submitted ones the diff
\* is empty again, and a submit that follows with that empty diff issues no
\* request.
C6_BaselineFolded ==
    /\ [][\A i \in 1..Len(submitReqs) :
             (/\ submitReqs' = RemoveAt(submitReqs, i)
              /\ edLast' = "submitOk"
              /\ submitReqs[i].method = "PATCH")
                 => /\ \A k \in DOMAIN submitReqs[i].body :
                          Get(entityData', k) = submitReqs[i].body[k]
                    /\ BoundAsSubmitted(i) =>
                          DOMAIN updateDataOf(parsed(edDescription', formValues'),
                                              entityData') = {}]_vars
    /\ [][(/\ edLast = "submitOk"
           /\ tips = TipsUpdated
           /\ edLast' = "submit"
           /\ NothingEdited)
              => submitReqs' = submitReqs]_vars

\* C6 witness: a PATCH has succeeded and the submit that followed it was
\* aborted as unchanged
C6_Witness ==
    /\ tips = TipsUpdated
    /\ edLast = "submit"
    /\ toastRaised = ToastNothingChanged
    /\ submitReqs = <<>>
    /\ processing = FALSE

\* C7: at most one submission is in flight in an editor at any time, and a
\* submit made while one is in flight issues no request and changes no state.
C7_OneSubmission ==
    /\ [](Len(submitReqs) <= 1)
    /\ [][(edLast' = "submit" /\ submitReqs # <<>>)
             => UNCHANGED << submitReqs, formValues, entityData, processing,
                             tips, getReqs, edDescReqs, formState >>]_vars

\* C7 witness: a submission is in flight, a bound value has been edited
\* since it was issued, and the last event was a submit
C7_Witness ==
    /\ Len(submitReqs) = 1
    /\ processing
    /\ edLast = "submit"
    /\ \E k \in DOMAIN submitReqs[1].updateData :
          Get(formValues, k) # submitReqs[1].updateData[k]

\* the requests in flight, as sets
GetsInFlight == { getReqs[i] : i \in 1..Len(getReqs) }
SubmitsInFlight == { submitReqs[i] : i \in 1..Len(submitReqs) }

\* C8: no GET record and no PATCH record is in flight with identifier "0";
\* an editor opened with identifier "0" fetches no record and every request
\* it submits is a POST.
C8_ZeroNeverSent ==
    /\ \A r \in GetsInFlight : r.id # "0"
    /\ \A r \in SubmitsInFlight : r.method = "PATCH" => r.id # "0"
    /\ edId = "0" => /\ getReqs = <<>>
                     /\ \A r \in SubmitsInFlight : r.method = "POST"

\* C8 witness: the editor was opened with identifier "0", its form is shown
\* without a record fetch, and its creation request has succeeded
C8_Witness ==
    /\ edId = "0"
    /\ formVisible
    /\ edLast = "submitOk"
    /\ tips = TipsCreated

\* the description has a field besides id
HasFieldBesidesId == ItemNames(edDescription) # {"id"}

\* the step issues exactly one request, a POST, and no "nothing changed" toast
OneCreationIssued ==
    /\ Len(submitReqs') = Len(submitReqs) + 1
    /\ IssuedSubmit.method = "POST"
    /\ toastRaised' # ToastNothingChanged

RECURSIVE OrdersOf(_)
OrdersOf(s) ==
    IF s = <<>> THEN ""
    ELSE LET last == s[Len(s)]
             field == IF last.desc THEN "-" \o last.id ELSE last.id
         IN IF Len(s) = 1 THEN field
            ELSE OrdersOf(SubSeq(s, 1, Len(s) - 1)) \o "," \o field

\* C12: the orders string of every page request is the sort entries in list
\* order, each its field name with '-' in front when descending, joined by
\* commas; no entry gives "", and [name ascending, status descending] gives
\* "name,-status".
C12_OrdersString ==
    \A i \in 1..Len(pageReqs) :
        /\ pageReqs[i].orders = OrdersOf(sorting)
        /\ sorting = <<>> => pageReqs[i].orders = ""
        /\ sorting = << [id |-> "name", desc |-> FALSE],
                        [id |-> "status", desc |-> TRUE] >>
               => pageReqs[i].orders = "name,-status"

\* C12 witness: a page request for [name ascending, status descending] is in
\* flight after a search
C12_Witness ==
    /\ sorting = << [id |-> "name", desc |-> FALSE], [id |-> "status", desc |-> TRUE] >>
    /\ keyword = "k"
    /\ Len(pageReqs) = 1
    /\ pageReqs[1].keyword = "k"
    /\ pageReqs[1].orders = "name,-status"

\* the actor may modify the entity type e
MayModify(e) == roles \cap ServerDescription(e).modify_roles # {}

\* C13: the operations column of a fetched description offers "edit" exactly
\* when the actor's roles and the description's modify_roles share a role,
\* and "view" otherwise; the editor is opened on a record only by the "edit"
\* action, for the row's id, and a click on "view" changes nothing.
C13_CanModify ==
    /\ [](\A i \in 1..Len(entityItems) :
             entityItems[i].category = opName =>
                 /\ MayModify(entityItems[i].entity) => entityItems[i].action = "edit"
                 /\ ~MayModify(entityItems[i].entity) => entityItems[i].action = "view")
    /\ [][(edLast = "none" /\ edLast' = "mount" /\ edId' # "0") =>
            /\ entityItems # <<>>
            /\ MayModify(opColumn(ListState).entity)
            /\ edEntity' = opColumn(ListState).entity
            /\ \E row \in 1..Len(entities) : edId' = entities[row].id]_vars

\* C13 witness: the editor was opened on a row of "settings" by an actor
\* whose only role is one of the two modify roles
C13_Witness ==
    /\ roles = {"admin"}
    /\ edLast = "mount"
    /\ edEntity = "settings"
    /\ edId = "5"

\* C14: the list offers "create" only when the actor may modify the entity
\* type shown
C14_CreateOnlyWhenCanModify ==
    (initialized /\ entityItems # <<>> /\ opColumn(ListState).entity = entity
        /\ createOffered(entity))
        => MayModify(entity)

\* C15: whatever entity and sort changes came before, the columns derived
\* from a fetched description D are the items of D in schema order followed
\* by the one operations column: |D.items| + 1 columns, the last one the
\* only operations column.
C15_ColumnCount ==
    entityItems # <<>> =>
        LET D == ServerDescription(entityItems[1].entity)
            n == Len(D.items)
        IN /\ Len(entityItems) = n + 1
           /\ \A i \in 1..n :
                 /\ entityItems[i].accessorKey = D.items[i].name
                 /\ entityItems[i].category = D.items[i].category
           /\ entityItems[n + 1].accessorKey = opName
           /\ Cardinality({ i \in 1..Len(entityItems) :
                                entityItems[i].category = opName }) = 1

\* C15 witness: after a sort click and a change of entity type, the five
\* columns of "settings" are shown while the list has rows of "users"
C15_Witness ==
    /\ sortClicks >= 1
    /\ entity = "settings"
    /\ Len(entityItems) = 5
    /\ entityItems[5].category = opName
    /\ entities # <<>>
    /\ entities[1].entity = "users"

\* a step that changes the entity type or the sort entries
ResetStep == entity' # entity \/ sorting' # sorting

\* C16: a step that changes the entity type or the sort entries leaves the
\* list fully reset: keyword empty, labels, columns and rows empty, page count
\* 0, page index the sentinel, column visibility the one the store held for
\* the entity type now shown; it issues exactly one description request, for
\* the new entity type and sort entries, and no page request.
C16_FullReset ==
    [][ResetStep =>
          /\ keyword' = ""
          /\ labels' = NoLabels
          /\ entityItems' = <<>>
          /\ entities' = NoRows
          /\ pageCount' = 0
          /\ pageIndex' = Sentinel
          /\ columnVisibility' = getColumnVisibility(storeVisibility, entity')
          /\ getColumnVisibility(storeVisibility', entity') = columnVisibility'
          /\ Len(descReqs') = Len(descReqs) + 1
          /\ descReqs'[Len(descReqs')].entity = entity'
          /\ descReqs'[Len(descReqs')].sorting = sorting'
          /\ pageReqs' = pageReqs]_vars

\* C16 witness: the list was switched back to "users" and reset; it shows
\* the visibility stored for "users", with the column "name" hidden, which
\* is not the one stored for "settings"
C16_Witness ==
    /\ entity = "users"
    /\ pageIndex = Sentinel
    /\ keyword = ""
    /\ inputKeyword = "k"
    /\ Len(descReqs) = 1
    /\ storeVisibility["settings"] = << EmptyVisibility >>
    /\ columnVisibility = [c \in {"name"} |-> FALSE]

\* the page a URL's page parameter names: a whole number that is not
\* negative; any other parameter, or none, is not valid
NamedPage(str) ==
    CASE str = "0" -> << 0 >>
      [] str = "1" -> << 1 >>
      [] str = "2" -> << 2 >>
      [] OTHER -> <<>>

\* C17: when a description fetch succeeds, the page index becomes the page
\* that the URL's page parameter names, or 0 when the URL has no valid page
\* parameter.
C17_PageFromUrl ==
    [][\A i \in 1..Len(descReqs) :
          UrlDescriptionOk(i) =>
              pageIndex' = IF NamedPage(urlPage) # <<>>
                           THEN NamedPage(urlPage)[1]
                           ELSE 0]_vars

\* C18: a description fetch that fails does not set the initialized flag:
\* the list it leaves is still not initialized.
C18_FailureKeepsUninitialized ==
    [][\A i \in 1..Len(descReqs) : DescriptionFail(i) => ~initialized']_vars

\* a step in which a description fetch or a page fetch fails
FetchFails ==
    \/ \E i \in 1..Len(descReqs) : DescriptionFail(i)
    \/ \E i \in 1..Len(pageReqs) : PageFail(i)

\* C19 (as amended): a failing description fetch or page fetch changes
\* neither the rows nor the page count: the list holds after the failure what
\* it held just before. At any time these are the rows and the page count of
\* the last successful page load, or the empty rows and the count 0 that the
\* reset of an entity or sort change left.
C19_FailureKeepsData ==
    /\ [][FetchFails => /\ entities' = entities
                        /\ pageCount' = pageCount
                        /\ entityItems' = entityItems
                        /\ labels' = labels]_vars
    /\ [](fetchLog.loaded # <<>> =>
             \/ /\ entities = fetchLog.loaded[1].rows
                /\ pageCount = fetchLog.loaded[1].pageCount
             \/ /\ entities = NoRows
                /\ pageCount = 0)

\* C19 witness: a fetch failed after the last successful page load and the
\* list still holds the rows and the page count of that load
C19_Witness ==
    /\ fetchLog.failed
    /\ fetchLog.loaded # <<>>
    /\ entities # NoRows
    /\ entities = fetchLog.loaded[1].rows
    /\ pageCount = 2
    /\ pageIndex = 1
    /\ pageReqs = <<>>

\* C19 as stated: after a fetch failed, the list holds the rows and the page
\* count of the last successful page load
C19_AsStated ==
    [][(FetchFails /\ fetchLog.loaded # <<>>) =>
          /\ entities' = fetchLog.loaded[1].rows
          /\ pageCount' = fetchLog.loaded[1].pageCount]_vars

\* the step issues one page request, for page 0 and the typed keyword
SearchFetchIssued ==
    /\ Len(pageReqs') = Len(pageReqs) + 1
    /\ SubSeq(pageReqs', 1, Len(pageReqs)) = pageReqs
    /\ LET r == pageReqs'[Len(pageReqs')]
       IN /\ r.page = 0
          /\ r.keyword = inputKeyword
          /\ r.entity = entity
          /\ r.page_size = pageSize
          /\ r.orders = BuildOrders(sorting)

\* C20 (as amended): a search submission sets the page index to 0 and the
\* keyword to the submitted text. It triggers a page fetch, carrying page 0
\* and the submitted keyword, when the page index or the keyword changes by
\* it and no page fetch is in flight; otherwise it issues no request.
C20_SearchSubmission ==
    [][submitSearch =>
          /\ pageIndex' = 0
          /\ keyword' = inputKeyword
          /\ IF ~loading /\ (pageIndex # 0 \/ keyword # inputKeyword)
             THEN SearchFetchIssued
             ELSE pageReqs' = pageReqs]_vars

\* C20 witness: a search was submitted from a later page and its page fetch,
\* for page 0 and the submitted keyword, is in flight
C20_Witness ==
    /\ keyword # ""
    /\ keyword = inputKeyword
    /\ pageIndex = 0
    /\ pageCount = 2
    /\ loading
    /\ Len(pageReqs) = 1
    /\ pageReqs[1].page = 0
    /\ pageReqs[1].keyword = keyword
    /\ entities # NoRows

\* C20 as stated: every search submission that changes the page index or the
\* keyword issues a page request for page 0 and the submitted keyword
C20_AsStated ==
    [][(submitSearch /\ (pageIndex # 0 \/ keyword # inputKeyword)) =>
          /\ pageIndex' = 0
          /\ keyword' = inputKeyword
          /\ SearchFetchIssued]_vars

\* C21: every page request carries counted = TRUE if and only if the page
\* count known to the list when the request is issued is 0.
C21_CountedIffUnknown ==
    [][Len(pageReqs') > Len(pageReqs) =>
          /\ pageReqs'[Len(pageReqs')].counted = (pageCount = 0)
          /\ pageCount' = pageCount]_vars

\* C21 witness: a request for a later page is in flight while a page count is
\* known, and it does not ask for the count
C21_Witness ==
    /\ Len(pageReqs) = 1
    /\ pageReqs[1].page = 1
    /\ ~pageReqs[1].counted
    /\ pageCount = 2

\* a step that resets the list: the entity type changes or a header is clicked
ListResets ==
    \/ \E e \in Entities : ChangeEntity(e)
    \/ \E col \in SortClickColumns : ClickSort(col)

\* C22: whenever the list has settled, the visibility map stored under the
\* current entity type's key is the in-memory visibility map and the stored
\* page size is the in-memory page size; a list reset for any entity type
\* takes the stored page size and the visibility map stored for its type.
C22_Persisted ==
    /\ [](/\ storeVisibility[entity] = << columnVisibility >>
          /\ storePageSize = NumToString(pageSize)
          /\ getPageSize(storePageSize) = pageSize)
    /\ [][ListResets =>
            /\ pageSize' = getPageSize(storePageSize)
            /\ storePageSize' = storePageSize
            /\ columnVisibility' = getColumnVisibility(storeVisibility, entity')
            /\ \A e \in Entities \ {entity'} :
                  storeVisibility'[e] = storeVisibility[e]]_vars

\* C22 witness: the list of "settings" shows the page size typed, and the
\* column hidden, in the list of "users", and took nothing else from it
C22_Witness ==
    /\ entity = "settings"
    /\ initialized
    /\ pageSize = 20
    /\ storePageSize = "20"
    /\ storeVisibility["users"] = << [c \in {"name"} |-> FALSE] >>
    /\ columnVisibility = [c \in {"name"} |-> TRUE]
    /\ storeVisibility["settings"] = << columnVisibility >>

\* C23: on a history navigation made while the page index is not the
\* sentinel, the page index becomes the page of the new URL (0 when the URL
\* names none) and the URL stays the one navigated to.
C23_HistoryReconciles ==
    [][\A page \in UrlPageParams :
          (HistoryNavigate(page) /\ pageIndex # Sentinel) =>
              /\ pageIndex' = PageParam(page)
              /\ urlPage' = page]_vars

\* C23 witness: the list was on page 1 with rows shown, the URL was navigated
\* to one without a usable page, and the fetch of page 0 is in flight
C23_Witness ==
    /\ urlPage = "abc"
    /\ pageIndex = 0
    /\ entities # NoRows
    /\ Len(pageReqs) = 1
    /\ pageReqs[1].page = 0
    /\ pageCount = 2

\* the URL pushes made while the list settles from state s with the changed
\* dependencies ch
RECURSIVE UrlPushes(_, _)
UrlPushes(s, ch) ==
    IF ch = NoChange THEN 0
    ELSE LET r == UrlCommit(s, ch)
         IN (IF r.s.urlPage # s.urlPage THEN 1 ELSE 0) + UrlPushes(r.s, r.ch)

\* the page button pressed in this step leads to page p
PageButtonTo(p) ==
    \/ nextPage /\ p = setPageIndex(ListState, pageIndex + 1).pageIndex
    \/ previousPage /\ p = setPageIndex(ListState, pageIndex - 1).pageIndex

\* C24: a press of the next or previous button that leads to page p leaves
\* the page index at p and the URL's page parameter at p, by exactly one push.
C24_OnePush ==
    [][\A p \in 0..2 :
          (PageButtonTo(p) /\ p # pageIndex) =>
              /\ pageIndex' = p
              /\ urlPage' = PageToString(p)
              /\ PageParam(urlPage') = p
              /\ LET new == [ListState EXCEPT !.pageIndex = p]
                 IN UrlPushes(new, Changed(ListState, new, FALSE)) = 1]_vars

\* a step in which a request of the list or of the editor fails
RequestFails ==
    \/ \E i \in 1..Len(descReqs) : DescriptionFail(i)
    \/ \E i \in 1..Len(pageReqs) : PageFail(i)
    \/ \E i \in 1..Len(edDescReqs) : EdDescriptionFail(i)
    \/ \E i \in 1..Len(getReqs) : GetFail(i)
    \/ \E i \in 1..Len(submitReqs) : SubmitFail(i)

\* the requests in flight, of every kind
InFlight ==
    Len(descReqs) + Len(pageReqs) + Len(edDescReqs) + Len(getReqs)
        + Len(submitReqs)

\* the step leaves the requests of this kind alone or delivers one response
NoneIssued(before, after) ==
    \/ after = before
    \/ \E i \in 1..Len(before) : after = RemoveAt(before, i)

\* C25: no request is retried: the step in which a request fails takes the
\* failed request out of flight and issues none, and every request is issued
\* by a step of the user (entity change, search, edit, create, submit) or by
\* the success of the description fetch that such a step started.
C25_NoRetry ==
    /\ [][RequestFails =>
            /\ InFlight' = InFlight - 1
            /\ NoneIssued(descReqs, descReqs')
            /\ NoneIssued(pageReqs, pageReqs')
            /\ NoneIssued(edDescReqs, edDescReqs')
            /\ NoneIssued(getReqs, getReqs')
            /\ NoneIssued(submitReqs, submitReqs')]_vars
    /\ [][/\ ~NoneIssued(descReqs, descReqs') =>
               \E e \in Entities : ChangeEntity(e)
          /\ ~NoneIssued(pageReqs, pageReqs') =>
               \/ \E i \in 1..Len(descReqs) : DescriptionOk(i)
               \/ submitSearch
          /\ ~NoneIssued(edDescReqs, edDescReqs') =>
               \/ \E row \in 1..Len(entities) : ClickEdit(row)
               \/ ClickCreate
          /\ ~NoneIssued(getReqs, getReqs') =>
               \E i \in 1..Len(edDescReqs) : EdDescriptionOk(i)
          /\ ~NoneIssued(submitReqs, submitReqs') => Submit]_vars

\* C25 witness: the record fetch of the editor, opened from a searched list,
\* failed, and no request of any kind is in flight
C25_Witness ==
    /\ edLast = "getFail"
    /\ InFlight = 0
    /\ initialized
    /\ entities # NoRows
    /\ keyword = "k"
    /\ ~loading

\* the shape contract of a category: a number, an array of strings, a string
\* of any length for the categories in unbounded, else a string of 0 to 50
ShapeHolds(category, v, unbounded) ==
    IF category \in {"number", "status"} THEN v \in NumberValues
    ELSE IF category = "texts" THEN v \in ArrayValues
    ELSE /\ v \in StringValues
         /\ category \notin unbounded => strLength(v) \in 0..50

\* a bound value of the form violates the shape contract of its item
ShapeViolated(unbounded) ==
    \E name \in ItemNames(edDescription) :
        ~ShapeHolds(ItemOf(edDescription, name).category,
                    Get(formValues, name), unbounded)

C27_AutoCreatedNeverSent ==
    \A i \in 1..Len(submitReqs) :
        submitReqs[i].method = "POST" =>
            \A k \in DOMAIN submitReqs[i].body \cap ItemNames(edDescription) :
                ~ItemOf(edDescription, k).auto_created

\* C28: a value is bound through the form only to a rendered field: an item
\* of the description other than id, created_at and updated_at that, in create
\* mode, is not auto_created; and, in update mode, only to an item that is not
\* readonly.
C28_FormFields ==
    [][\A name \in {"name", "remark", "status", "file"},
         v \in NumberValues \cup StringValues :
          SetValue(name, v) =>
              /\ name \in ItemNames(edDescription)
                           \ {"id", "created_at", "updated_at"}
              /\ isCreated(edId) => ~ItemOf(edDescription, name).auto_created
              /\ ~isCreated(edId) => ~ItemOf(edDescription, name).readonly]_vars

\* C29: when the record of an update arrives, every field fetched as null is
\* bound to the empty string and every fetched field is bound to its baseline
\* value; the diff of the bound values against the baseline is then empty and
\* a submit made before any edit issues no request.
C29_LoadedBaseline ==
    /\ [][\A i \in 1..Len(getReqs) :
            \A data \in ServerRecords(getReqs[i].entity, getReqs[i].id) :
              GetOk(i, data) =>
                /\ \A k \in DOMAIN data :
                      /\ isNil(data[k]) => formValues'[k] = EmptyString
                      /\ ~isNil(data[k]) => formValues'[k] = data[k]
                      /\ entityData'[k] = formValues'[k]
                /\ DOMAIN entityData' = DOMAIN data
                /\ updateDataOf(parsed(edDescription, formValues'), entityData')
                      = EmptyObject]_vars
    /\ [][(edLast = "getOk" /\ Submit) => submitReqs' = submitReqs]_vars

\* C29 witness: the record of a user came with a null remark, and the submit
\* made without an edit found nothing changed
C29_Witness ==
    /\ edEntity = "users"
    /\ edId = "5"
    /\ edLast = "submit"
    /\ toastRaised = ToastNothingChanged
    /\ Get(formValues, "remark") = EmptyString
    /\ Get(entityData, "remark") = EmptyString
    /\ submitReqs = <<>>

\* C30: whenever the list is idle (initialized, page index not the sentinel,
\* no description or page fetch in flight), the rows shown are the response
\* to a request issued for the current entity type and the current sort
\* entries.
C30_RowsOfCurrentList ==
    (/\ initialized
     /\ pageIndex # Sentinel
     /\ ~loading
     /\ pageReqs = <<>>
     /\ descReqs = <<>>)
        => \A i \in 1..Len(entities) :
              /\ entities[i].entity = entity
              /\ entities[i].orders = BuildOrders(sorting)

\* C31: the first page request after a full reset, issued when a description
\* arrives while the page index is still the sentinel, carries counted = TRUE.
C31_FirstFetchCounted ==
    [][\A i \in 1..Len(descReqs) :
          (/\ DescriptionOk(i)
           /\ pageIndex = Sentinel
           /\ Len(pageReqs') > Len(pageReqs))
              => pageReqs'[Len(pageReqs')].counted]_vars

\* C33: a change of entity type leaves the sort entries as they were, and the
\* page request issued when the description of the new entity type arrives
\* carries the orders string built from those entries.
C33_SortSurvivesEntityChange ==
    /\ [][\A e \in Entities : ChangeEntity(e) => sorting' = sorting]_vars
    /\ [][\A i \in 1..Len(descReqs) :
            (DescriptionOk(i) /\ Len(pageReqs') > Len(pageReqs))
                => /\ sorting' = sorting
                   /\ pageReqs'[Len(pageReqs')].orders = BuildOrders(sorting)]_vars

\* a header was clicked on one entity type, and the page request of the other
\* entity type, now shown, carries the orders of that click
C33_Witness ==
    /\ sortClicks = 1
    /\ \E j \in 1..Len(descReqs) :
          /\ descReqs[j].stale
          /\ descReqs[j].entity # entity
          /\ descReqs[j].sorting # << >>
    /\ \E i \in 1..Len(pageReqs) :
          /\ pageReqs[i].entity = entity
          /\ pageReqs[i].orders # ""
          /\ pageReqs[i].orders = BuildOrders(sorting)

\* C34: a switch of entity type leaves the visibility map stored for the
\* entity type left as it was, and after the switch the map read from the
\* store for the entity type entered is the one read before it; no step other
\* than a visibility toggle changes the map read for any entity type.
C34_VisibilityKeptApart ==
    /\ [][\A e \in Entities : ChangeEntity(e) =>
            /\ storeVisibility'[entity] = storeVisibility[entity]
            /\ getColumnVisibility(storeVisibility', e) =
                   getColumnVisibility(storeVisibility, e)
            /\ columnVisibility' = getColumnVisibility(storeVisibility, e)]_vars
    /\ [][(~ \E col \in VisibilityColumns, v \in BOOLEAN : toggleVisibility(col, v))
            => \A x \in Entities :
                  getColumnVisibility(storeVisibility', x) =
                     getColumnVisibility(storeVisibility, x)]_vars

\* "settings" is shown after "users", whose stored map hides a column; the
\* save effect has written under the key of "settings", and what it wrote is
\* not the map of "users"
C34_Witness ==
    /\ entity = "settings"
    /\ storeVisibility["users"] = << [c \in {"name"} |-> FALSE] >>
    /\ storeVisibility["settings"] = << EmptyVisibility >>
    /\ columnVisibility = EmptyVisibility

\* C35: when an update submission succeeds the bound values stay as they are
\* and the baseline takes the submitted keys with their submitted values, every
\* other key keeping its value; so a submitted key whose bound value now
\* differs from the submitted one is in the next diff, with the bound value.
C35_EditsInFlightKept ==
    [][\A i \in 1..Len(submitReqs) :
          (SubmitOk(i) /\ submitReqs[i].method = "PATCH") =>
              LET u == submitReqs[i].updateData
                  values == parsed(edDescription, formValues')
                  diff == updateDataOf(values, entityData')
              IN /\ formValues' = formValues
                 /\ DOMAIN entityData' = DOMAIN entityData \cup DOMAIN u
                 /\ \A k \in DOMAIN entityData' :
                       entityData'[k] = IF k \in DOMAIN u THEN u[k]
                                        ELSE entityData[k]
                 /\ \A k \in DOMAIN u \cap DOMAIN values :
                       ~isEqual(values[k], u[k])
                           => k \in DOMAIN diff /\ diff[k] = values[k]]_vars

\* the update of name to 'b' has succeeded while name was bound back to 'a'
\* during the flight: the baseline holds 'b' and the next diff holds name
C35_Witness ==
    /\ edEntity = "users" /\ edId = "5"
    /\ edLast = "submitOk" /\ tips = TipsUpdated
    /\ Get(entityData, "name") = "'b'"
    /\ Get(formValues, "name") = "'a'"
    /\ "name" \in DOMAIN updateDataOf(parsed(edDescription, formValues), entityData)

\* the request a submit of the values now bound would build
NextSubmitRequest ==
    LET values == parsed(edDescription, formValues)
    IN submitRequest(edEntity, edId, values, updateDataOf(values, entityData))

\* a submit of the values now bound passes every guard of onSubmit
SubmitAccepted ==
    /\ formVisible
    /\ validates(edDescription, formValues)
    /\ ~submitBlocked(processing)
    /\ DOMAIN NextSubmitRequest.updateData # {}

\* C36: a failed submission leaves the baseline and the bound values as they
\* were and clears the in-flight flag; when no edit during the flight changed
\* the request, a submit is accepted again and builds the request that failed;
\* and the submit made right after the failure issues exactly that request.
C36_FailureKeepsState ==
    /\ [][\A i \in 1..Len(submitReqs) : SubmitFail(i) =>
            /\ entityData' = entityData
            /\ formValues' = formValues
            /\ ~processing'
            /\ (NextSubmitRequest = submitReqs[i] /\ validates(edDescription, formValues))
                  => SubmitAccepted' /\ NextSubmitRequest' = submitReqs[i]]_vars
    /\ [][(Submit /\ edLast = "submitFail" /\ SubmitAccepted) =>
            submitReqs' = Append(submitReqs, NextSubmitRequest)]_vars

\* an update submission has just failed: the failure is shown, nothing is in
\* flight, and a submit of the bound values is accepted with a diff to send
C36_Witness ==
    /\ edLast = "submitFail"
    /\ toastRaised = ToastSubmitFailed
    /\ edId = "5"
    /\ submitReqs = << >>
    /\ SubmitAccepted
    /\ NextSubmitRequest.method = "PATCH"

\* in update mode the record fetch is over and no baseline is held
LoadFailed ==
    /\ ~isCreated(edId)
    /\ edInitialized
    /\ getReqs = << >>
    /\ isNil(Get(entityData, "id"))

\* C38: in update mode a failed record fetch leaves the baseline absent and
\* the form unavailable; from then on, in that editor instance, the baseline
\* stays absent, no record fetch is issued again and no request is submitted.
C38_NoPatchAfterLoadFailure ==
    /\ [][\A i \in 1..Len(getReqs) : (GetFail(i) /\ ~isCreated(edId)) =>
            /\ entityData' = entityData
            /\ LoadFailed'
            /\ ~formVisible']_vars
    /\ [][LoadFailed =>
            /\ LoadFailed'
            /\ ~formVisible'
            /\ submitReqs = << >> /\ submitReqs' = << >>]_vars

\* the record fetch of the editor opened on record 5 has failed: the form
\* is mounted but not rendered
C38_Witness ==
    /\ edId = "5"
    /\ edLast = "getFail"
    /\ toastRaised = ToastLoadFailed
    /\ formState = "mounted"
    /\ LoadFailed
    /\ ~formVisible

\* a step that changes a dependency of the page effect, [pageIndex, keyword,
\* pageSize], to a render whose page index is not the sentinel
PageTrigger ==
    /\ << pageIndex', keyword', pageSize' >> # << pageIndex, keyword, pageSize >>
    /\ pageIndex' >= 0

\* C37: when every page request returns, a list that is loading a page
\* stops loading; the response that ends a fetch, success or failure, clears
\* the in-flight flag; and a page-fetch trigger that comes while nothing is
\* in flight issues a request.
C37_LoadingEnds ==
    /\ loading ~> ~loading
    /\ [][\A i \in 1..Len(pageReqs) : PageResponse(i) => ~loading']_vars
    /\ [][(~loading /\ PageTrigger) =>
            /\ loading'
            /\ Len(pageReqs') = Len(pageReqs) + 1]_vars

\* a first fetch has ended, it left the page count 2, and the next trigger,
\* the move to the second page, was accepted: its request is in flight
C37_Witness ==
    /\ pageCount = 2
    /\ pageIndex = 1
    /\ loading
    /\ Len(pageReqs) = 1
    /\ pageReqs[1].page = 1

\* C39: at a service that answers a negative page count to every request
\* with counted = FALSE, whenever a positive page count is known the page
\* index is smaller than the page count. (The requests of the list with URL
\* sync carry no counted flag, so every answer to them meets the assumption.)
C39_IndexBelowCount == pageCount > 0 => pageIndex < pageCount

\* the stored page sizes that are missing, non-numeric, zero or negative
UnusableStoredPageSizes == {NullItem, "abc", "0", "-5"}

\* C40: every page request in flight has page >= 0 and page_size > 0; the
\* page size held is positive; a step that ends with the page index at the
\* sentinel issues no page request; a page-size input <= 0 changes neither
\* the page size, nor the stored page size, nor the requests; and a stored
\* page size that is missing, non-numeric, zero or negative is read as 10.
C40_RequestsWellFormed ==
    /\ [](/\ \A i \in 1..Len(pageReqs) :
              pageReqs[i].page >= 0 /\ pageReqs[i].page_size > 0
          /\ pageSize > 0
          /\ \A s \in UnusableStoredPageSizes : getPageSize(s) = 10)
    /\ [][pageIndex' = Sentinel => Len(pageReqs') <= Len(pageReqs)]_vars
    /\ [][\A n \in PageSizeInputs : (ChangePageSize(n) /\ n <= 0) =>
            /\ pageSize' = pageSize
            /\ storePageSize' = storePageSize
            /\ pageReqs' = pageReqs]_vars

\* the page size 20 was typed into the page-size input and stored, and the
\* request for the first page with that size is in flight
C40_Witness ==
    /\ storePageSize = "20"
    /\ pageSize = 20
    /\ pageIndex = 0
    /\ Len(pageReqs) = 1
    /\ pageReqs[1].page = 0
    /\ pageReqs[1].page_size = 20

\* C32: a search submission and a page-size change leave the known page
\* count unchanged: the step itself keeps it and, when a count is known,
\* issues its fetch with counted = FALSE; and the response to a fetch issued
\* with counted = FALSE for a searched keyword or a changed page size leaves
\* the page count at what it was.
C32_SearchKeepsPageCount ==
    /\ [][(submitSearch \/ \E n \in PageSizeInputs : ChangePageSize(n)) =>
            /\ pageCount' = pageCount
            /\ (Len(pageReqs') > Len(pageReqs) /\ pageCount # 0)
                  => ~pageReqs'[Len(pageReqs')].counted]_vars
    /\ [][\A i \in 1..Len(pageReqs) :
            (/\ PageResponse(i)
             /\ ~pageReqs[i].counted
             /\ \/ pageReqs[i].keyword # ""
                \/ pageReqs[i].page_size # DefaultPageSize)
                => pageCount' = pageCount]_vars

\* ---------------------------------------------------------- specifications

\* the list, from its mount
Init == ListInit /\ EditorIdle
Next == ListNext
Spec == Init /\ [][Next]_vars

\* the list when every page request returns: listEntities resolves or rejects
PageReturns ==
    \/ \E i \in 1..Len(pageReqs), pc \in PageCountAnswers : PageOk(i, pc)
    \/ \E i \in 1..Len(pageReqs) : PageFail(i)

\* the triggers of the page fetch of one list and the responses
ListLiveNext ==
    \/ \E i \in 1..Len(descReqs) : DescriptionOk(i)
    \/ \E i \in 1..Len(descReqs) : DescriptionFail(i)
    \/ PageReturns
    \/ \E k \in Keywords : TypeKeyword(k)
    \/ submitSearch
    \/ nextPage
    \/ previousPage
    \/ \E n \in PageSizeInputs : ChangePageSize(n)

InitLive ==
    /\ ListIs(Mounted("users", {"admin"}, [x \in Entities |-> <<>>], NullItem))
    /\ sortClicks = 0
    /\ EditorIdle

SpecLive == InitLive /\ [][ListLiveNext]_vars /\ WF_vars(PageReturns)

\* the list with its page-size input in use
SpecSize == Init /\ [][ListSizeNext]_vars

\* the editor, from the mount of EntityEditor
ListIdle ==
    /\ ListIs(Mounted("users", {"admin"}, [x \in Entities |-> <<>>], NullItem))
    /\ sortClicks = 0

InitEditor == ListIdle /\ EditorInit
SpecEditor == InitEditor /\ [][EditorNext]_vars

\* the list of "settings", whose description has two sortable columns
InitSort ==
    /\ ListIs(Mounted("settings", {"admin"}, [x \in Entities |-> <<>>], NullItem))
    /\ sortClicks = 0
    /\ EditorIdle

SpecSort == InitSort /\ [][ListSortNext]_vars

\* the list with the history of its fetches kept
InitFail ==
    /\ ListIs([Mounted("users", {"admin"}, [x \in Entities |-> <<>>], NullItem)
                  EXCEPT !.fetchLog = LogOn])
    /\ sortClicks = 0
    /\ EditorIdle

SpecFail == InitFail /\ [][ListFailNext]_vars

\* the list with URL sync, opened on a URL with or without a page parameter
InitUrl ==
    /\ \E e \in Entities, page \in UrlPageParams :
          ListIs(UrlMounted(e, {"admin"}, [x \in Entities |-> <<>>], page))
    /\ sortClicks = 0
    /\ EditorIdle

SpecUrl == InitUrl /\ [][UrlNext]_vars

\* the list mounted over what an earlier visit left in localStorage
\* what localStorage may hold under entityPageSize when the list mounts:
\* nothing, a text, zero, a negative number, a page size
StoredPageSizes == {NullItem, "abc", "0", "-5", "20"}

InitPersist ==
    /\ \E sp \in StoredPageSizes,
          sv \in {[x \in Entities |-> <<>>],
                  [x \in Entities |->
                      IF x = "users" THEN << [c \in {"name"} |-> FALSE] >>
                      ELSE <<>>]} :
          ListIs(Mounted("users", {"admin"}, sv, sp))
    /\ sortClicks = 0
    /\ EditorIdle

SpecPersist == InitPersist /\ [][ListPersistNext]_vars

\* the list with its search and its "columns" menu in use
InitReset ==
    /\ ListIs(Mounted("users", {"admin"}, [x \in Entities |-> <<>>], NullItem))
    /\ sortClicks = 0
    /\ EditorIdle

SpecReset == InitReset /\ [][ListResetNext]_vars

\* the list of "settings" with its columns shown, for each sort list the
\* table can hand to the page fetch
Shown(e, rs, srt) ==
    LET m == Mounted(e, rs, [x \in Entities |-> <<>>], NullItem)
        description == pushOp(ServerDescription(e))
        s == [m EXCEPT !.sorting = srt,
                       !.descReqs = <<>>,
                       !.labels = columnLabels(description),
                       !.entityItems = convertDescriptionToColumnDef(
                                           description, srt, rs, e),
                       !.initialized = TRUE,
                       !.pageIndex = 0]
    IN Settle(s, [NoChange EXCEPT !.pageIndex = TRUE])

InitOrders ==
    /\ \E srt \in SortLists : ListIs(Shown("settings", {"admin"}, srt))
    /\ sortClicks = 0
    /\ EditorIdle

SpecOrders == InitOrders /\ [][ListPageNext]_vars

\* the list, for each entity type and each role set of the actor
InitRoles ==
    /\ \E e \in Entities, rs \in RoleSets :
          ListIs(Mounted(e, rs, [x \in Entities |-> <<>>], NullItem))
    /\ sortClicks = 0
    /\ EditorIdle

SpecRoles == InitRoles /\ [][ListRolesNext]_vars

\* the list with its search, then the editor opened from it
SpecRetry ==
    InitReset /\ [][\/ ListRolesNext
                    \/ ListOnScreen /\ \E k \in Keywords : TypeKeyword(k)
                    \/ ListOnScreen /\ submitSearch
                    \/ EditorNext]_vars

====
